---- MODULE Spec2Model ----
(***************************************************************************)
(* twin: environment lifecycle on top of git worktrees.                    *)
(*                                                                         *)
(* The module models                                                       *)
(*   - EnvironmentRegistry (core/types.rs): add / remove / set_active,     *)
(*   - GitManager (git.rs): the branch listing parse, branch_exists,       *)
(*     generate_unique_branch_name, add_worktree, remove_worktree,         *)
(*   - UnixSymlinkManager (symlink.rs): create_symlink / remove_symlink,   *)
(*   - EnvironmentManager (environment.rs): create_environment and         *)
(*     remove_environment with their rollback,                             *)
(*   - HookExecutor (hooks.rs): execute and execute_hooks.                 *)
(*                                                                         *)
(* The specifications share the variables:                                 *)
(*   Spec          the EnvironmentManager, one action per public call,     *)
(*   SpecRegistry  arbitrary sequences of the Registry's own operations,   *)
(*   SpecBranch    generate_unique_branch_name over bounded repositories,  *)
(*   SpecHooks     the hook sequences of hooks.rs and environment.rs,      *)
(*   SpecLink      create_symlink / remove_symlink on bounded filesystems, *)
(*   SpecPure      pure functions applied to bounded inputs,               *)
(*   SpecProcs     two processes, each with its own EnvironmentManager,    *)
(*   SpecWait      a call's hooks step by step (SpecWaitFair: scheduled),  *)
(*   SpecCli       the add and remove commands of cli/commands.rs.         *)
(*                                                                         *)
(* Timestamps (created_at, updated_at, last_updated) are not modelled.     *)
(* The filesystem and git are the program's environment: their behaviour   *)
(* is modelled as git and a Unix filesystem behave for the calls the       *)
(* program makes.  At most one I/O fault is injected per call.             *)
(***************************************************************************)
EXTENDS Naturals, Sequences, FiniteSets, TLC

VARIABLES
    registry,   \* EnvironmentManager.registry (in memory)
    persisted,  \* the registry document .git/twin-registry.json
    fs,         \* filesystem: path -> entry
    git,        \* repository state: branches and registered worktrees
    config,     \* EnvironmentManager.config.settings (files, hooks)
    lastCall,   \* the last call made and what it returned
    callLog,    \* side-effecting steps the last call performed, in order
    ncalls,     \* number of calls made so far
    executor,   \* the HookExecutor of hooks.rs (dry_run, continue_on_error)
    input,      \* the argument of the last pure function applied
    output,     \* what that function returned
    procs       \* concurrent processes: each one's position and local state

vars == <<registry, persisted, fs, git, config, lastCall, callLog, ncalls, executor,
          input, output, procs>>

----------------------------------------------------------------------------
(* Bounds *)

MaxCalls == 3

Names == {"a", "b"}

None == "<none>"

----------------------------------------------------------------------------
(* core/types.rs: EnvironmentStatus, AgentEnvironment, EnvironmentRegistry *)

Statuses == {"Active", "Inactive", "Creating", "Removing", "Error"}

AgentEnvironment(name, branch, worktree_path, symlinks, status) ==
    [name |-> name, branch |-> branch, worktree_path |-> worktree_path,
     symlinks |-> symlinks, status |-> status]

set_status(env, status) == [env EXCEPT !.status = status]

EmptyRegistry == [environments |-> [n \in {} |-> None], active |-> None]

\* registry.get(name).is_some()
RegistryHas(reg, name) == name \in DOMAIN reg.environments

RegistryAdd(reg, env) ==
    [reg EXCEPT !.environments =
        [n \in (DOMAIN reg.environments) \cup {env.name} |->
            IF n = env.name THEN env ELSE reg.environments[n]]]

RegistryRemoveKeepsActive(reg, name) ==
    [reg EXCEPT !.environments =
        [n \in (DOMAIN reg.environments) \ {name} |-> reg.environments[n]]]

RegistryRemove(reg, name) ==
    [environments |->
        [n \in (DOMAIN reg.environments) \ {name} |-> reg.environments[n]],
     active |-> IF reg.active = name THEN None ELSE reg.active]

SetActiveKeepsOld(reg, name) ==
    IF name # None
    THEN [environments |->
            [n \in DOMAIN reg.environments |->
                IF n = name THEN set_status(reg.environments[n], "Active")
                ELSE reg.environments[n]],
          active |-> name]
    ELSE [reg EXCEPT !.active = None]

SetActiveDemotesAll(reg, name) ==
    IF name # None
    THEN [environments |->
            [n \in DOMAIN reg.environments |->
                IF n = name THEN set_status(reg.environments[n], "Active")
                ELSE set_status(reg.environments[n], "Inactive")],
          active |-> name]
    ELSE [reg EXCEPT !.active = None]

\* set_active: with Some(n), demote the entry `active` points to (if it is
\* in the map), then promote n (if it is in the map); always store name.
SetActive(reg, name) ==
    IF name # None
    THEN LET old == reg.active
             demoted ==
                 [n \in DOMAIN reg.environments |->
                     IF old # None /\ n = old
                     THEN set_status(reg.environments[n], "Inactive")
                     ELSE reg.environments[n]]
             promoted ==
                 [n \in DOMAIN demoted |->
                     IF n = name THEN set_status(demoted[n], "Active")
                     ELSE demoted[n]]
         IN  [environments |-> promoted, active |-> name]
    ELSE [reg EXCEPT !.active = None]

----------------------------------------------------------------------------
(* git.rs: branch listing, branch_exists, generate_unique_branch_name *)

MainBranch == "main"

\* The repository: its branches and its registered (linked) worktrees.
\* A worktree stays registered until `git worktree remove` or `prune`;
\* deleting its directory does not unregister it.
InitGit == [branches |-> {MainBranch}, current |-> MainBranch, worktrees |-> {}]

CheckedOutElsewhere(g, b) == \E w \in g.worktrees : w.branch = b

\* One line of `git branch -v -a`, as the characters that matter: a
\* two-column prefix ("* " current branch, "+ " checked out in a linked
\* worktree, "  " otherwise), the name, the abbreviated commit, the subject.
BranchLine(g, b) ==
    LET mark == IF b = g.current THEN "*"
                ELSE IF CheckedOutElsewhere(g, b) THEN "+" ELSE " "
    IN  <<mark, " ", b, " ", "c0ffee1", " ", "subject">>

BranchListing(g) == { BranchLine(g, b) : b \in g.branches }

RECURSIVE TrimStart(_)
TrimStart(line) ==
    IF line # <<>> /\ Head(line) = " " THEN TrimStart(Tail(line)) ELSE line

RECURSIVE TrimEnd(_)
TrimEnd(line) ==
    IF line # <<>> /\ line[Len(line)] = " "
    THEN TrimEnd(SubSeq(line, 1, Len(line) - 1)) ELSE line

Trim(line) == TrimEnd(TrimStart(line))

NotSpace(tok) == tok # " "

SplitWhitespace(line) == SelectSeq(line, NotSpace)

\* parse_branch_list, one line: trim; a leading '*' marks the current branch
\* and two characters are dropped; split on whitespace; fewer than two
\* parts: skipped; name = parts[0], commit = parts[1].
ParseBranchLine(line) ==
    LET t == Trim(line)
        current == t # <<>> /\ Head(t) = "*"
        rest == IF current THEN SubSeq(t, 3, Len(t)) ELSE t
        parts == SplitWhitespace(rest)
    IN  IF t = <<>> \/ Len(parts) < 2 THEN {}
        ELSE {[name |-> parts[1], current |-> current, commit |-> parts[2]]}

ParseBranchList(listing) == UNION { ParseBranchLine(l) : l \in listing }

ListBranches(g) == ParseBranchList(BranchListing(g))

BranchExists(g, branch_name) ==
    \E b \in ListBranches(g) : b.name = branch_name

Numbered(base_name, i) == base_name \o "-" \o ToString(i)

Timestamped(base_name, timestamp) == base_name \o "-" \o timestamp

\* The first i in from..max_attempts whose numbered name does not exist,
\* 0 when there is none.
RECURSIVE FirstFree(_, _, _, _)
FirstFree(g, base_name, from, max_attempts) ==
    IF from > max_attempts THEN 0
    ELSE IF ~BranchExists(g, Numbered(base_name, from)) THEN from
    ELSE FirstFree(g, base_name, from + 1, max_attempts)

\* The names generate_unique_branch_name passes to branch_exists, in call
\* order: the base, the numbered names up to the first that is reported
\* absent, and the timestamped name when every numbered one is reported.
RECURSIVE NumberedChecks(_, _, _, _)
NumberedChecks(g, base_name, from, max_attempts) ==
    IF from > max_attempts THEN <<>>
    ELSE IF ~BranchExists(g, Numbered(base_name, from))
    THEN <<Numbered(base_name, from)>>
    ELSE <<Numbered(base_name, from)>>
            \o NumberedChecks(g, base_name, from + 1, max_attempts)

BranchChecks(g, base_name, max_attempts, timestamp) ==
    IF ~BranchExists(g, base_name) THEN <<base_name>>
    ELSE <<base_name>> \o NumberedChecks(g, base_name, 1, max_attempts)
            \o (IF FirstFree(g, base_name, 1, max_attempts) = 0
                THEN <<Timestamped(base_name, timestamp)>> ELSE <<>>)

GenerateUniqueBranchName(g, base_name, max_attempts, timestamp) ==
    IF ~BranchExists(g, base_name) THEN [ok |-> TRUE, name |-> base_name]
    ELSE LET i == FirstFree(g, base_name, 1, max_attempts)
         IN  IF i # 0 THEN [ok |-> TRUE, name |-> Numbered(base_name, i)]
             ELSE IF ~BranchExists(g, Timestamped(base_name, timestamp))
                  THEN [ok |-> TRUE, name |-> Timestamped(base_name, timestamp)]
                  ELSE [ok |-> FALSE, name |-> None]

----------------------------------------------------------------------------
(* The filesystem, and symlink.rs (UnixSymlinkManager) *)

Absent == [kind |-> "absent", info |-> ""]

File == [kind |-> "file", info |-> ""]

\* owner: "user" (was there before, has contents), "worktree" (a checkout
\* made by git worktree add), "twin" (made by create_dir_all)
Dir(owner) == [kind |-> "dir", info |-> owner]

Symlink(source) == [kind |-> "symlink", info |-> source]

\* generate_worktree_path(name): a deterministic path under the base directory
WorktreePath(name) == "worktrees/" \o name

\* generate_agent_branch_name(name, None): the configured prefix and the name
AgentBranchName(name) == "agent/" \o name

\* Path::join
Join(dir, path) == dir \o "/" \o path

\* The file mappings a configuration may name, and Path::parent of each
\* and of each joined to a worktree path ("" for a single component).
Targets == {".env", "cfg/local.toml"}

Parent(target) ==
    IF target = "cfg/local.toml" THEN "cfg"
    ELSE IF \E n \in Names : target = Join(WorktreePath(n), "cfg/local.toml")
    THEN Join(WorktreePath(CHOOSE n \in Names :
                              target = Join(WorktreePath(n), "cfg/local.toml")), "cfg")
    ELSE IF \E n \in Names : target = Join(WorktreePath(n), ".env")
    THEN WorktreePath(CHOOSE n \in Names : target = Join(WorktreePath(n), ".env"))
    ELSE ""

Paths == { WorktreePath(n) : n \in Names } \cup Targets \cup {"cfg"}

\* Path::exists || Path::is_symlink: there is an entry, resolving or not
EntryAt(f, path) == f[path].kind # "absent"

IsSymlink(f, path) == f[path].kind = "symlink"

\* fs::remove_file: removes a file or a link, fails on a directory
RemoveFile(f, path) ==
    IF f[path].kind \in {"file", "symlink"}
    THEN [f EXCEPT ![path] = Absent] ELSE f

\* fs::create_dir_all: Ok at once for "" and for an existing directory
CreateDirAll(f, dir) ==
    IF dir = "" \/ f[dir].kind = "dir" THEN f ELSE [f EXCEPT ![dir] = Dir("twin")]

\* create_symlink: remove what is at target (errors ignored), create the
\* parent, symlink(source, target).  symlink fails when an entry is still at
\* target, or by an injected fault.  Result: the filesystem and ok.
CreateSymlink(f, source, target, fault) ==
    LET f1 == IF EntryAt(f, target) THEN RemoveFile(f, target) ELSE f
        f2 == CreateDirAll(f1, Parent(target))
    IN  IF fault \/ EntryAt(f2, target)
        THEN [fs |-> f2, ok |-> FALSE]
        ELSE [fs |-> [f2 EXCEPT ![target] = Symlink(source)], ok |-> TRUE]

RemoveSymlinkKeeps(f, path) == f

\* remove_symlink: remove_file when the path is a symlink, else nothing
RemoveSymlink(f, path) ==
    IF IsSymlink(f, path) THEN RemoveFile(f, path) ELSE f

\* Path::exists: the path resolves, following symlinks, to a file or a
\* directory; a chain longer than hops (a loop) does not resolve.
RECURSIVE ResolvesWithin(_, _, _)
ResolvesWithin(f, path, hops) ==
    IF path \notin DOMAIN f THEN FALSE
    ELSE IF f[path].kind \in {"file", "dir"} THEN TRUE
    ELSE IF f[path].kind = "symlink"
    THEN hops > 0 /\ ResolvesWithin(f, f[path].info, hops - 1)
    ELSE FALSE

PathExistsNever(f, path) == FALSE

PathExists(f, path) == ResolvesWithin(f, path, Cardinality(DOMAIN f))

\* validate_symlink: Ok(false) when !path.exists(); Ok(false) when the
\* path is not a symlink; else Ok(true) when fs::metadata(path) is Ok and
\* Ok(false) when it is not.
ValidateSymlink(f, path) ==
    IF ~PathExists(f, path) THEN FALSE
    ELSE IF ~IsSymlink(f, path) THEN FALSE
    ELSE PathExists(f, path)

TryRemoveSymlinkMissingIsError(f, path, fault) ==
    IF ~EntryAt(f, path) THEN [fs |-> f, ok |-> FALSE]
    ELSE IF IsSymlink(f, path) /\ fault THEN [fs |-> f, ok |-> FALSE]
    ELSE [fs |-> RemoveSymlink(f, path), ok |-> TRUE]

TryRemoveSymlinkUnguarded(f, path, fault) ==
    IF IsSymlink(f, path) /\ ~fault
    THEN [fs |-> RemoveFile(f, path), ok |-> TRUE]
    ELSE [fs |-> f, ok |-> FALSE]

\* remove_symlink with its result: Ok without touching anything when the
\* path is not a symlink; otherwise the result of fs::remove_file, which
\* fails by an injected fault only.
TryRemoveSymlink(f, path, fault) ==
    IF IsSymlink(f, path) /\ fault
    THEN [fs |-> f, ok |-> FALSE]
    ELSE [fs |-> RemoveSymlink(f, path), ok |-> TRUE]

----------------------------------------------------------------------------
(* git.rs: add_worktree, remove_worktree *)

Registered(g, path) == \E w \in g.worktrees : w.path = path

\* `git worktree add -b branch path` refuses an existing branch, a path that
\* is already a registered worktree and a path that exists with contents.
GitWorktreeAddRefused(g, f, path, branch) ==
    \/ branch \in g.branches
    \/ Registered(g, path)
    \/ EntryAt(f, path)

\* add_worktree(path, Some(branch), true): git worktree add, then
\* get_worktree_info (git worktree list) whose failure is returned after the
\* worktree was made.  fault: "none", "add", "add_info".
AddWorktree(g, f, path, branch, fault) ==
    IF fault = "add" \/ GitWorktreeAddRefused(g, f, path, branch)
    THEN [git |-> g, fs |-> f, ok |-> FALSE, added |-> FALSE]
    ELSE [git |-> [g EXCEPT !.branches = @ \cup {branch},
                            !.worktrees = @ \cup {[path |-> path, branch |-> branch]}],
          fs |-> [f EXCEPT ![path] = Dir("worktree")],
          ok |-> fault # "add_info", added |-> TRUE]

RemoveWorktreeLeavesDirectory(g, f, path, force, dirty, fault) ==
    IF fault \/ ~Registered(g, path) \/ (dirty /\ ~force /\ EntryAt(f, path))
    THEN [git |-> g, fs |-> f, ok |-> FALSE]
    ELSE [git |-> [g EXCEPT !.worktrees = { w \in @ : w.path # path }],
          fs |-> f, ok |-> TRUE]

\* remove_worktree(path, force): `git worktree remove [--force] path` refuses
\* an unregistered path, and a worktree with local changes unless forced;
\* it deletes the directory and the registration, never the branch.
RemoveWorktree(g, f, path, force, dirty, fault) ==
    IF fault \/ ~Registered(g, path) \/ (dirty /\ ~force /\ EntryAt(f, path))
    THEN [git |-> g, fs |-> f, ok |-> FALSE]
    ELSE [git |-> [g EXCEPT !.worktrees = { w \in @ : w.path # path }],
          fs |-> [f EXCEPT ![path] = Absent],
          ok |-> TRUE]

----------------------------------------------------------------------------
(* git.rs: list_worktrees, parse_worktree_list *)

\* A line of `git worktree list --porcelain` is a key, or a key, a space
\* and the rest of the line: <<key>> or <<key, rest>>; <<>> is the blank
\* line that ends a record.
StartsWith(line, key) == Len(line) >= 2 /\ line[1] = key

WorktreeInfo(path) ==
    [path |-> path, branch |-> "", commit |-> "", locked |-> FALSE, prunable |-> FALSE]

\* Option<WorktreeInfo>::None
NoWorktree == [path |-> None, branch |-> "", commit |-> "", locked |-> FALSE,
               prunable |-> FALSE]

\* the loop of parse_worktree_list from line i on; agent_name and the dates
\* of WorktreeInfo are not modelled
RECURSIVE ParseWorktreeLines(_, _, _, _)
ParseWorktreeLines(lines, i, worktrees, current) ==
    IF i > Len(lines) THEN [worktrees |-> worktrees, current |-> current]
    ELSE
    LET line == lines[i]
    IN  IF StartsWith(line, "worktree")
        THEN ParseWorktreeLines(lines, i + 1,
                 IF current # NoWorktree THEN Append(worktrees, current) ELSE worktrees,
                 WorktreeInfo(line[2]))
        ELSE IF current = NoWorktree
        THEN ParseWorktreeLines(lines, i + 1, worktrees, current)
        ELSE IF StartsWith(line, "HEAD")
        THEN ParseWorktreeLines(lines, i + 1, worktrees, [current EXCEPT !.commit = line[2]])
        ELSE IF StartsWith(line, "branch")
        THEN ParseWorktreeLines(lines, i + 1, worktrees, [current EXCEPT !.branch = line[2]])
        ELSE IF line = <<"locked">>
        THEN ParseWorktreeLines(lines, i + 1, worktrees, [current EXCEPT !.locked = TRUE])
        ELSE IF line = <<"prunable">>
        THEN ParseWorktreeLines(lines, i + 1, worktrees, [current EXCEPT !.prunable = TRUE])
        ELSE ParseWorktreeLines(lines, i + 1, worktrees, current)

ParseWorktreeListDropsLast(lines) ==
    ParseWorktreeLines(lines, 1, <<>>, NoWorktree).worktrees

ParseWorktreeList(lines) ==
    LET r == ParseWorktreeLines(lines, 1, <<>>, NoWorktree)
    IN  IF r.current # NoWorktree THEN Append(r.worktrees, r.current) ELSE r.worktrees

----------------------------------------------------------------------------
(* environment.rs: EnvironmentManager *)

\* max_attempts passed by create_environment
MaxAttempts == 10

HookCommand(continue_on_error) == [continue_on_error |-> continue_on_error]

\* One step of a call: what was done, to what (a path, or the index i of a
\* hook in its list), and whether it succeeded.
Ev(e, a, i, ok) == [ev |-> e, arg |-> a, i |-> i, ok |-> ok]

Logged(w, e, a, ok) == [w EXCEPT !.log = Append(@, Ev(e, a, 0, ok))]

NoEnv == AgentEnvironment(None, None, None, <<>>, None)

Ret(w, result, stage, branch, env) ==
    [w |-> w, result |-> result, stage |-> stage, branch |-> branch, env |-> env]

ExecuteHookAlwaysOk(hook, exit_ok) == TRUE

\* execute_hook: Ok unless the command fails and continue_on_error is false
ExecuteHook(hook, exit_ok) == exit_ok \/ hook.continue_on_error

\* for hook in hooks { execute_hook(hook)? }: the index of the hook whose
\* error ends the loop, 0 when the loop runs to its end
RECURSIVE FirstHookError(_, _, _)
FirstHookError(hooks, out, i) ==
    IF i > Len(hooks) THEN 0
    ELSE IF ~ExecuteHook(hooks[i], out[i]) THEN i
    ELSE FirstHookError(hooks, out, i + 1)

RunHooks(w, phase, hooks, out) ==
    LET e == FirstHookError(hooks, out, 1)
        n == IF e = 0 THEN Len(hooks) ELSE e
    IN  [w |-> [w EXCEPT !.log = @ \o [i \in 1..n |-> Ev(phase, "hook", i, out[i])]],
         ok |-> e = 0]

----------------------------------------------------------------------------
(* hooks.rs: HookExecutor *)

\* HookExecutor::new(): not a dry run, stop on error
HookExecutorNew == [dry_run |-> FALSE, continue_on_error |-> FALSE]

\* How a hook's command ends: exit status 0, a nonzero exit status, or the
\* process could not be spawned.
HookOutcomes == {"exit0", "nonzero", "spawn_error"}

\* HookExecutor::execute: a dry run runs nothing and reports success; a
\* spawn failure is returned as Err; a nonzero exit is Err unless the
\* executor's continue_on_error is set, and then Ok with success = false.
\* The hook's own continue_on_error is not read.
Execute(ex, hook, outcome) ==
    IF ex.dry_run THEN [ran |-> FALSE, err |-> FALSE, success |-> TRUE]
    ELSE IF outcome = "spawn_error"
    THEN [ran |-> TRUE, err |-> TRUE, success |-> FALSE]
    ELSE IF outcome = "nonzero"
    THEN [ran |-> TRUE, err |-> ~ex.continue_on_error, success |-> FALSE]
    ELSE [ran |-> TRUE, err |-> FALSE, success |-> TRUE]

\* HookExecutor::execute_hooks from hook i on: Ok(result) stops the loop
\* (and returns Ok) when the result is a failure and the executor does not
\* continue on error; Err(e) is returned unless the executor continues on
\* error.  Result: the hooks started, in order, and whether Ok is returned.
RECURSIVE ExecuteHooksFrom(_, _, _, _, _, _)
ExecuteHooksFrom(ex, phase, hooks, out, i, log) ==
    IF i > Len(hooks) THEN [log |-> log, ok |-> TRUE]
    ELSE LET r == Execute(ex, hooks[i], out[i])
             log1 == Append(log, Ev(phase, IF r.ran THEN "hook" ELSE "dry_run",
                                    i, r.success))
         IN  IF ~r.err
             THEN IF ~r.success /\ ~ex.continue_on_error
                  THEN [log |-> log1, ok |-> TRUE]
                  ELSE ExecuteHooksFrom(ex, phase, hooks, out, i + 1, log1)
             ELSE IF ~ex.continue_on_error
                  THEN [log |-> log1, ok |-> FALSE]
                  ELSE ExecuteHooksFrom(ex, phase, hooks, out, i + 1, log1)

\* A command or argument text is a sequence of pieces: literal text, or a
\* placeholder token.  str::replace(from, to): every piece equal to from
\* becomes the pieces of to, which are not scanned again.
RECURSIVE Replace(_, _, _)
Replace(text, from, to) ==
    IF text = <<>> THEN <<>>
    ELSE (IF Head(text) = from THEN to ELSE <<Head(text)>>)
         \o Replace(Tail(text), from, to)

\* HookExecutor::expand_command: four replace passes, in this order; the
\* context made by HookContext::new has no additional variables
ExpandCommand(command, context) ==
    Replace(Replace(Replace(Replace(command,
        "${AGENT_NAME}", context.agent_name),
        "${WORKTREE_PATH}", context.worktree_path),
        "${BRANCH}", context.branch),
        "${PROJECT_ROOT}", context.project_root)

----------------------------------------------------------------------------
(* environment.rs: EnvironmentManager, continued *)

SaveRegistryFailureIgnored(w, fault) ==
    IF fault
    THEN [w |-> Logged(w, "save_registry", "registry", FALSE), ok |-> TRUE]
    ELSE [w |-> Logged([w EXCEPT !.persisted = w.registry], "save_registry", "registry", TRUE),
          ok |-> TRUE]

\* save_registry: write the document; on failure the document is as it was
SaveRegistry(w, fault) ==
    IF fault
    THEN [w |-> Logged(w, "save_registry", "registry", FALSE), ok |-> FALSE]
    ELSE [w |-> Logged([w EXCEPT !.persisted = w.registry], "save_registry", "registry", TRUE),
          ok |-> TRUE]

\* serde_json::to_string_pretty(&registry): the JSON document.  A String is
\* a JSON string, Option::None is null, a unit enum variant is a JSON string
\* of its name, a HashMap is an object whose members come in the map's
\* iteration order (order: the keys in that order).
SerializeRegistry(reg, order) ==
    LET JStr(x) == <<"string", x>>
        Env(e) == [name |-> JStr(e.name), branch |-> JStr(e.branch),
                   worktree_path |-> JStr(e.worktree_path),
                   symlinks |-> [i \in 1..Len(e.symlinks) |->
                                   [source |-> JStr(e.symlinks[i].source),
                                    target |-> JStr(e.symlinks[i].target)]],
                   status |-> JStr(e.status)]
    IN  [environments |-> [i \in 1..Len(order) |->
                             [key |-> order[i], value |-> Env(reg.environments[order[i]])]],
         active |-> IF reg.active = None THEN <<"null">> ELSE JStr(reg.active)]

ParseRegistryDropsActive(doc) ==
    [environments |->
        [n \in { doc.environments[i].key : i \in 1..Len(doc.environments) } |->
            LET v == (CHOOSE i \in 1..Len(doc.environments) :
                         doc.environments[i].key = n)
            IN  AgentEnvironment(doc.environments[v].value.name[2],
                                 doc.environments[v].value.branch[2],
                                 doc.environments[v].value.worktree_path[2],
                                 <<>>, doc.environments[v].value.status[2])],
     active |-> None]

\* load_registry: serde_json::from_str.  Each member of the environments
\* object is inserted under its key (the last one wins for a repeated key);
\* null is None, a JSON string is Some of its text.
ParseRegistry(doc) ==
    LET members == doc.environments
        Last(n) == CHOOSE i \in 1..Len(members) :
                      /\ members[i].key = n
                      /\ \A j \in (i + 1)..Len(members) : members[j].key # n
        Env(v) == AgentEnvironment(v.name[2], v.branch[2], v.worktree_path[2],
                                   [i \in 1..Len(v.symlinks) |->
                                       [source |-> v.symlinks[i].source[2],
                                        target |-> v.symlinks[i].target[2]]],
                                   v.status[2])
    IN  [environments |->
            [n \in { members[i].key : i \in 1..Len(members) } |-> Env(members[Last(n)].value)],
         active |-> IF doc.active[1] = "null" THEN None ELSE doc.active[2]]

RollbackKeepsDirectory(w, path) == w

\* the rollback closure of create_environment: remove_dir_all(worktree_path)
\* when the path exists; nothing is asked of git
Rollback(w, path) ==
    IF EntryAt(w.fs, path)
    THEN Logged([w EXCEPT !.fs[path] = Absent], "remove_dir_all", path, TRUE)
    ELSE w

\* for created_link in symlinks { let _ = remove_symlink(target); }
RECURSIVE RemoveCreatedLinks(_, _, _)
RemoveCreatedLinks(w, symlinks, i) ==
    IF i > Len(symlinks) THEN w
    ELSE RemoveCreatedLinks(
            Logged([w EXCEPT !.fs = RemoveSymlink(@, symlinks[i].target)],
                   "remove_symlink", symlinks[i].target, TRUE),
            symlinks, i + 1)

\* the mapping loop of create_environment, from mapping i on; symlinks are
\* the links made so far.  A failure rolls back and removes those links.
RECURSIVE ProvisionLinks(_, _, _, _, _, _)
ProvisionLinks(w, worktree_path, files, i, symlinks, fault) ==
    IF i > Len(files) THEN [w |-> w, symlinks |-> symlinks, err |-> "Ok"]
    ELSE
    LET target == files[i]
        source == Join(worktree_path, target)
        parent == Parent(target)
        mkdir_fails == /\ fault.point = "mkdir" /\ fault.i = i
                       /\ parent # "" /\ w.fs[parent].kind # "dir"
        w1 == Logged([w EXCEPT !.fs = CreateDirAll(@, parent)], "create_dir_all", parent, TRUE)
        link == CreateSymlink(w1.fs, source, target, fault.point = "link" /\ fault.i = i)
        w2 == Logged([w1 EXCEPT !.fs = link.fs], "create_symlink", target, link.ok)
    IN  IF mkdir_fails
        THEN [w |-> RemoveCreatedLinks(Rollback(Logged(w, "create_dir_all", parent, FALSE),
                                                worktree_path), symlinks, 1),
              symlinks |-> symlinks, err |-> "Io"]
        ELSE IF ~link.ok
        THEN [w |-> RemoveCreatedLinks(Rollback(w2, worktree_path), symlinks, 1),
              symlinks |-> symlinks, err |-> "Symlink"]
        ELSE ProvisionLinks(w2, worktree_path, files, i + 1,
                            Append(symlinks, [source |-> source, target |-> target]),
                            fault)

NameNeverTaken(reg, name) == FALSE

\* the uniqueness check that opens create_environment
NameTaken(reg, name) == RegistryHas(reg, name)

CreateEnvironment(w, cfg, name, branch, out_pre, out_post, fault, timestamp) ==
    IF NameTaken(w.registry, name)
    THEN Ret(w, "AlreadyExists", "check", None, NoEnv)
    ELSE
    LET branch_name == IF branch # None THEN branch ELSE AgentBranchName(name)
        w0 == Logged(w, "git_branch", branch_name, fault.point # "branch_list")
        unique == GenerateUniqueBranchName(w.git, branch_name, MaxAttempts, timestamp)
        worktree_path == WorktreePath(name)
        pre == RunHooks(w0, "pre_create", cfg.hooks.pre_create, out_pre)
        add == AddWorktree(pre.w.git, pre.w.fs, worktree_path, unique.name, fault.point)
        wa == Logged([pre.w EXCEPT !.git = add.git, !.fs = add.fs],
                     "git_worktree_add", worktree_path, add.added)
        w1 == IF add.added THEN Logged(wa, "git_worktree_list", worktree_path, add.ok)
              ELSE wa
        links == ProvisionLinks(w1, worktree_path, cfg.files, 1, <<>>, fault)
        env == AgentEnvironment(name, unique.name, worktree_path, links.symlinks, "Active")
        w2 == [links.w EXCEPT !.registry = SetActive(RegistryAdd(@, env), name)]
        save == SaveRegistry(w2, fault.point = "save")
        post == RunHooks(save.w, "post_create", cfg.hooks.post_create, out_post)
    IN  IF fault.point = "branch_list" \/ ~unique.ok
        THEN Ret(w0, "Git", "resolve", None, NoEnv)
        ELSE IF ~pre.ok
        THEN Ret(Rollback(pre.w, worktree_path), "Hook", "pre_create", unique.name, NoEnv)
        ELSE IF ~add.ok
        THEN Ret(Rollback(w1, worktree_path), "Git",
                 IF add.added THEN "add_info" ELSE "add", unique.name, NoEnv)
        ELSE IF links.err # "Ok"
        THEN Ret(links.w, links.err, "links", unique.name, NoEnv)
        ELSE IF ~save.ok
        THEN Ret(RemoveCreatedLinks(
                    [Rollback(save.w, worktree_path) EXCEPT
                        !.registry = RegistryRemove(@, name)],
                    env.symlinks, 1),
                 "Config", "save", unique.name, NoEnv)
        ELSE IF ~post.ok
        THEN Ret(RemoveCreatedLinks(
                    SaveRegistry(
                        [Rollback(post.w, worktree_path) EXCEPT
                            !.registry = RegistryRemove(@, name)],
                        FALSE).w,
                    env.symlinks, 1),
                 "Hook", "post_create", unique.name, NoEnv)
        ELSE Ret(post.w, "Ok", "done", unique.name, env)

RECURSIVE RemoveEnvLinksStopAtFirst(_, _, _, _, _)
RemoveEnvLinksStopAtFirst(w, symlinks, i, force, fault) ==
    IF i > Len(symlinks) THEN [w |-> w, ok |-> TRUE]
    ELSE
    LET target == symlinks[i].target
        rm == TryRemoveSymlink(w.fs, target, fault.point = "rm_link" /\ fault.i = i)
        w0 == Logged(w, "is_symlink", target, IsSymlink(w.fs, target))
        w1 == Logged([w0 EXCEPT !.fs = rm.fs], "remove_symlink", target, rm.ok)
    IN  IF ~rm.ok THEN [w |-> w1, ok |-> force]
        ELSE RemoveEnvLinksStopAtFirst(w1, symlinks, i + 1, force, fault)

\* the link loop of remove_environment, from link i on: a failing
\* remove_symlink is a warning under force and the returned error
\* otherwise.  remove_symlink asks is_symlink first; both steps are logged.
RECURSIVE RemoveEnvLinks(_, _, _, _, _)
RemoveEnvLinks(w, symlinks, i, force, fault) ==
    IF i > Len(symlinks) THEN [w |-> w, ok |-> TRUE]
    ELSE
    LET target == symlinks[i].target
        rm == TryRemoveSymlink(w.fs, target, fault.point = "rm_link" /\ fault.i = i)
        w0 == Logged(w, "is_symlink", target, IsSymlink(w.fs, target))
        w1 == Logged([w0 EXCEPT !.fs = rm.fs], "remove_symlink", target, rm.ok)
    IN  IF ~rm.ok /\ ~force THEN [w |-> w1, ok |-> FALSE]
        ELSE RemoveEnvLinks(w1, symlinks, i + 1, force, fault)

RemoveUnknownRunsHooks(w, cfg, name, force, out_pre, out_post, fault, dirty) ==
    LET pre == RunHooks(w, "pre_remove", cfg.hooks.pre_remove, out_pre)
    IN  Ret(pre.w, IF pre.ok THEN "NotFound" ELSE "Hook", "check", None, NoEnv)

RemoveEnvironment(w, cfg, name, force, out_pre, out_post, fault, dirty) ==
    IF ~RegistryHas(w.registry, name)
    THEN Ret(w, "NotFound", "check", None, NoEnv)
    ELSE
    LET env == w.registry.environments[name]
        pre == RunHooks(w, "pre_remove", cfg.hooks.pre_remove, out_pre)
        rl == RemoveEnvLinks(pre.w, env.symlinks, 1, force, fault)
        rw == RemoveWorktree(rl.w.git, rl.w.fs, env.worktree_path, force, dirty,
                             fault.point = "rm_worktree")
        w1 == Logged([rl.w EXCEPT !.git = rw.git, !.fs = rw.fs],
                     "git_worktree_remove", env.worktree_path, rw.ok)
        save == SaveRegistry([w1 EXCEPT !.registry = RegistryRemove(@, name)],
                             fault.point = "save")
        post == RunHooks(save.w, "post_remove", cfg.hooks.post_remove, out_post)
    IN  IF ~pre.ok THEN Ret(pre.w, "Hook", "pre_remove", env.branch, NoEnv)
        ELSE IF ~rl.ok THEN Ret(rl.w, "Io", "links", env.branch, NoEnv)
        ELSE IF ~rw.ok /\ ~force THEN Ret(w1, "Git", "worktree", env.branch, NoEnv)
        ELSE IF ~save.ok THEN Ret(save.w, "Config", "save", env.branch, NoEnv)
        ELSE IF ~post.ok THEN Ret(post.w, "Hook", "post_remove", env.branch, NoEnv)
        ELSE Ret(post.w, "Ok", "done", env.branch, NoEnv)

----------------------------------------------------------------------------
(* Spec: the EnvironmentManager, one action per call *)

FileLists == {<<>>, <<".env", "cfg/local.toml">>}

HookLists == {<<>>, <<HookCommand(TRUE), HookCommand(FALSE)>>}

Configs ==
    { [files |-> fl,
       hooks |-> [pre_create |-> h, post_create |-> h,
                  pre_remove |-> h, post_remove |-> h]] :
      fl \in FileLists, h \in HookLists }

NoConfig == [files |-> <<>>,
             hooks |-> [pre_create |-> <<>>, post_create |-> <<>>,
                        pre_remove |-> <<>>, post_remove |-> <<>>]]

BranchArgs == {None, "agent/a"}

Timestamps == {"20250101-120000"}

CreateFaults ==
    { [point |-> p, i |-> 0] : p \in {"none", "branch_list", "add", "add_info", "save"} }
    \cup { [point |-> p, i |-> i] : p \in {"mkdir", "link"}, i \in 1..2 }

RemoveFaults ==
    { [point |-> p, i |-> 0] : p \in {"none", "rm_worktree", "save"} }
    \cup { [point |-> "rm_link", i |-> i] : i \in 1..2 }

NoCall == [op |-> "none", name |-> None, result |-> None, stage |-> None,
           branch |-> None, env |-> NoEnv, force |-> FALSE]

World == [registry |-> registry, persisted |-> persisted, fs |-> fs, git |-> git,
          log |-> <<>>]

\* The repository before the first call: no registry document, no worktree;
\* a directory with contents may already be at the path of environment "a",
\* and the main repository may have a real .env file.
Init ==
    /\ registry = EmptyRegistry
    /\ persisted = EmptyRegistry
    /\ fs \in { [p \in Paths |->
                   IF p = WorktreePath("a") THEN d
                   ELSE IF p = ".env" THEN e ELSE Absent] :
                d \in {Absent, Dir("user")}, e \in {Absent, File} }
    /\ git = InitGit
    /\ config \in Configs
    /\ lastCall = NoCall
    /\ callLog = <<>>
    /\ ncalls = 0
    /\ executor = HookExecutorNew
    /\ input = <<>>
    /\ output = <<>>
    /\ procs = <<>>

Returned(op, name, force, r) ==
    /\ registry' = r.w.registry
    /\ persisted' = r.w.persisted
    /\ fs' = r.w.fs
    /\ git' = r.w.git
    /\ callLog' = r.w.log
    /\ lastCall' = [op |-> op, name |-> name, result |-> r.result, stage |-> r.stage,
                    branch |-> r.branch, env |-> r.env, force |-> force]
    /\ ncalls' = ncalls + 1
    /\ UNCHANGED <<config, executor, input, output, procs>>

NoFault == [point |-> "none", i |-> 0]

Outcomes(hooks) == [1..Len(hooks) -> BOOLEAN]

AllSucceed(hooks) == [i \in 1..Len(hooks) |-> TRUE]

\* Inputs of a call: the exit status of every hook and at most one injected
\* I/O fault.  A fault that ends the call is enumerated with succeeding hooks
\* only: a hook failing before it hides the fault, one after it never runs,
\* and a tolerated hook failure changes nothing but its entry in the log.
CreateInputs ==
    { <<out_pre, out_post, NoFault>> :
        out_pre \in Outcomes(config.hooks.pre_create),
        out_post \in Outcomes(config.hooks.post_create) }
    \cup { <<AllSucceed(config.hooks.pre_create),
             AllSucceed(config.hooks.post_create), fault>> :
           fault \in CreateFaults }

\* Under force a failing removal is tolerated and the call goes on, so every
\* combination is enumerated; local changes only matter without force.
RemoveInputs(force) ==
    IF force
    THEN { <<out_pre, out_post, fault, FALSE>> :
            out_pre \in Outcomes(config.hooks.pre_remove),
            out_post \in Outcomes(config.hooks.post_remove),
            fault \in RemoveFaults }
    ELSE { <<out_pre, out_post, NoFault, dirty>> :
            out_pre \in Outcomes(config.hooks.pre_remove),
            out_post \in Outcomes(config.hooks.post_remove),
            dirty \in BOOLEAN }
         \cup { <<AllSucceed(config.hooks.pre_remove),
                  AllSucceed(config.hooks.post_remove), fault, dirty>> :
                fault \in RemoveFaults, dirty \in BOOLEAN }

Create(name, branch) ==
    /\ ncalls < MaxCalls
    /\ \E in \in CreateInputs, timestamp \in Timestamps :
          Returned("create", name, FALSE,
                   CreateEnvironment(World, config, name, branch,
                                     in[1], in[2], in[3], timestamp))

Remove(name, force) ==
    /\ ncalls < MaxCalls
    /\ \E in \in RemoveInputs(force) :
          Returned("remove", name, force,
                   RemoveEnvironment(World, config, name, force,
                                     in[1], in[2], in[3], in[4]))

Next ==
    \/ \E name \in Names, branch \in BranchArgs : Create(name, branch)
    \/ \E name \in Names, force \in BOOLEAN : Remove(name, force)

Spec == Init /\ [][Next]_vars

----------------------------------------------------------------------------
(* SpecRegistry: any sequence of the Registry's add, remove and set_active *)

RegistryEnv(name, status) ==
    AgentEnvironment(name, AgentBranchName(name), WorktreePath(name), <<>>, status)

RegistryCall(op, name) == [NoCall EXCEPT !.op = op, !.name = name, !.result = "Ok"]

InitRegistry ==
    /\ registry = EmptyRegistry
    /\ persisted = EmptyRegistry
    /\ fs = [p \in Paths |-> Absent]
    /\ git = InitGit
    /\ config = NoConfig
    /\ lastCall = NoCall
    /\ callLog = <<>>
    /\ ncalls = 0
    /\ executor = HookExecutorNew
    /\ input = <<>>
    /\ output = <<>>
    /\ procs = <<>>

RegAdd(name, status) ==
    /\ registry' = RegistryAdd(registry, RegistryEnv(name, status))
    /\ lastCall' = RegistryCall("add", name)
    /\ UNCHANGED <<persisted, fs, git, config, callLog, ncalls, executor, input, output, procs>>

RegRemove(name) ==
    /\ registry' = RegistryRemove(registry, name)
    /\ lastCall' = RegistryCall("remove", name)
    /\ UNCHANGED <<persisted, fs, git, config, callLog, ncalls, executor, input, output, procs>>

RegSetActive(name) ==
    /\ registry' = SetActive(registry, name)
    /\ lastCall' = RegistryCall("set_active", name)
    /\ UNCHANGED <<persisted, fs, git, config, callLog, ncalls, executor, input, output, procs>>

RegistryNames == Names \cup {"c"}

NextRegistry ==
    \/ \E name \in RegistryNames, status \in Statuses : RegAdd(name, status)
    \/ \E name \in RegistryNames : RegRemove(name)
    \/ \E name \in RegistryNames \cup {None} : RegSetActive(name)

SpecRegistry == InitRegistry /\ [][NextRegistry]_vars

----------------------------------------------------------------------------
(* SpecBranch: generate_unique_branch_name over bounded repositories *)

MaxNumbered == 2

BaseNames == {"main", "agent/a"}

\* the names generate_unique_branch_name may try for base "agent/a"
Candidates ==
    {"agent/a"} \cup { Numbered("agent/a", i) : i \in 1..MaxNumbered }
    \cup { Timestamped("agent/a", t) : t \in Timestamps }

\* repositories: main and any of the candidates exist, any branch is the
\* current one, any of the others is checked out in a linked worktree
BranchRepos ==
    UNION { UNION { { [branches |-> {MainBranch} \cup bs, current |-> cur,
                       worktrees |-> { [path |-> Join("worktrees", b), branch |-> b] :
                                       b \in co }] :
                      co \in SUBSET (bs \ {cur}) } :
                    cur \in {MainBranch} \cup bs } :
            bs \in SUBSET Candidates }

InitBranch ==
    /\ registry = EmptyRegistry
    /\ persisted = EmptyRegistry
    /\ fs = [p \in Paths |-> Absent]
    /\ git \in BranchRepos
    /\ config = NoConfig
    /\ lastCall = NoCall
    /\ callLog = <<>>
    /\ ncalls = 0
    /\ executor = HookExecutorNew
    /\ input = <<>>
    /\ output = <<>>
    /\ procs = <<>>

GenerateUnique(base_name, max_attempts, timestamp) ==
    LET r == GenerateUniqueBranchName(git, base_name, max_attempts, timestamp)
    IN  /\ lastCall' = [NoCall EXCEPT !.op = "generate_unique", !.name = base_name,
                                      !.result = IF r.ok THEN "Ok" ELSE "Git",
                                      !.stage = ToString(max_attempts),
                                      !.branch = r.name]
        /\ callLog' = LET checks == BranchChecks(git, base_name, max_attempts, timestamp)
                      IN  [k \in 1..Len(checks) |->
                              Ev("branch_exists", checks[k], k, BranchExists(git, checks[k]))]
        /\ UNCHANGED <<registry, persisted, fs, git, config, ncalls, executor, input, output, procs>>

NextBranch ==
    \E base_name \in BaseNames, max_attempts \in 0..MaxNumbered,
       timestamp \in Timestamps :
        GenerateUnique(base_name, max_attempts, timestamp)

SpecBranch == InitBranch /\ [][NextBranch]_vars

----------------------------------------------------------------------------
(* SpecHooks: hook sequences, run by HookExecutor::execute_hooks and by the *)
(* hook loops of the EnvironmentManager                                     *)

MaxHooks == 3

Phases == {"pre_create", "post_create", "pre_remove", "post_remove"}

RECURSIVE HookSeqs(_)
HookSeqs(n) ==
    IF n = 0 THEN {<<>>}
    ELSE HookSeqs(n - 1)
         \cup { Append(h, HookCommand(c)) :
                h \in { x \in HookSeqs(n - 1) : Len(x) = n - 1 }, c \in BOOLEAN }

HookConfigs ==
    { [files |-> <<>>,
       hooks |-> [pre_create |-> h, post_create |-> h,
                  pre_remove |-> h, post_remove |-> h]] : h \in HookSeqs(MaxHooks) }

InitHooks ==
    /\ registry = EmptyRegistry
    /\ persisted = EmptyRegistry
    /\ fs = [p \in Paths |-> Absent]
    /\ git = InitGit
    /\ config \in HookConfigs
    /\ lastCall = NoCall
    /\ callLog = <<>>
    /\ ncalls = 0
    /\ executor = HookExecutorNew
    /\ input = <<>>
    /\ output = <<>>
    /\ procs = <<>>

SetDryRun(dry_run) ==
    /\ executor' = [executor EXCEPT !.dry_run = dry_run]
    /\ lastCall' = [NoCall EXCEPT !.op = "set_dry_run", !.result = "Ok"]
    /\ callLog' = <<>>
    /\ UNCHANGED <<registry, persisted, fs, git, config, ncalls, input, output, procs>>

SetContinueOnError(continue_on_error) ==
    /\ executor' = [executor EXCEPT !.continue_on_error = continue_on_error]
    /\ lastCall' = [NoCall EXCEPT !.op = "set_continue_on_error", !.result = "Ok"]
    /\ callLog' = <<>>
    /\ UNCHANGED <<registry, persisted, fs, git, config, ncalls, input, output, procs>>

\* HookExecutor::execute_hooks(phase, the phase's hooks of the configuration)
ExecuteHooks(phase) ==
    \E out \in [1..Len(config.hooks[phase]) -> HookOutcomes] :
    LET r == ExecuteHooksFrom(executor, phase, config.hooks[phase], out, 1, <<>>)
    IN  /\ callLog' = r.log
        /\ lastCall' = [NoCall EXCEPT !.op = "execute_hooks", !.name = phase,
                                      !.result = IF r.ok THEN "Ok" ELSE "Hook"]
        /\ UNCHANGED <<registry, persisted, fs, git, config, ncalls, executor, input, output, procs>>

\* the loop `for hook in hooks { self.execute_hook(hook, name)? }` of the
\* EnvironmentManager; execute_hook treats a spawn failure as a failed hook
HookLoop(phase) ==
    \E out \in [1..Len(config.hooks[phase]) -> HookOutcomes] :
    LET r == RunHooks(World, phase, config.hooks[phase],
                      [i \in DOMAIN out |-> out[i] = "exit0"])
    IN  /\ callLog' = r.w.log
        /\ lastCall' = [NoCall EXCEPT !.op = "hook_loop", !.name = phase,
                                      !.result = IF r.ok THEN "Ok" ELSE "Hook"]
        /\ UNCHANGED <<registry, persisted, fs, git, config, ncalls, executor, input, output, procs>>

NextHooks ==
    \/ \E dry_run \in BOOLEAN : SetDryRun(dry_run)
    \/ \E continue_on_error \in BOOLEAN : SetContinueOnError(continue_on_error)
    \/ \E phase \in Phases : ExecuteHooks(phase)
    \/ \E phase \in Phases : HookLoop(phase)

SpecHooks == InitHooks /\ [][NextHooks]_vars

----------------------------------------------------------------------------
(* SpecLink: create_symlink and remove_symlink over bounded filesystems *)

\* sources a link may be asked to point to; each may or may not exist
LinkSources == {".env", WorktreePath("a"), "cfg/local.toml"}

\* filesystems before the first call: real files and directories only, a
\* file under cfg only when cfg is a directory
LinkFilesystems ==
    { [p \in Paths |->
          IF p = ".env" THEN e
          ELSE IF p = "cfg" THEN c
          ELSE IF p = "cfg/local.toml" THEN (IF c = Absent THEN Absent ELSE l)
          ELSE IF p = WorktreePath("a") THEN d
          ELSE Absent] :
      e \in {Absent, File}, c \in {Absent, Dir("user")},
      l \in {Absent, File}, d \in {Absent, Dir("user")} }

InitLink ==
    /\ registry = EmptyRegistry
    /\ persisted = EmptyRegistry
    /\ fs \in LinkFilesystems
    /\ git = InitGit
    /\ config = NoConfig
    /\ lastCall = NoCall
    /\ callLog = <<>>
    /\ ncalls = 0
    /\ executor = HookExecutorNew
    /\ input = <<>>
    /\ output = <<>>
    /\ procs = <<>>

\* create_symlink(source, target); lastCall.name is the target and
\* lastCall.stage the source
LinkCreate(source, target) ==
    \E fault \in BOOLEAN :
    LET r == CreateSymlink(fs, source, target, fault)
    IN  /\ fs' = r.fs
        /\ lastCall' = [NoCall EXCEPT !.op = "create_symlink", !.name = target,
                                      !.stage = source,
                                      !.result = IF r.ok THEN "Ok" ELSE "Symlink"]
        /\ callLog' = <<Ev("symlink", target, 0, r.ok)>>
        /\ UNCHANGED <<registry, persisted, git, config, ncalls, executor, input, output, procs>>

\* remove_symlink(path); lastCall.name is the path
LinkRemove(path) ==
    \E fault \in BOOLEAN :
    LET r == TryRemoveSymlink(fs, path, fault)
    IN  /\ fs' = r.fs
        /\ lastCall' = [NoCall EXCEPT !.op = "remove_symlink", !.name = path,
                                      !.result = IF r.ok THEN "Ok" ELSE "Io"]
        /\ callLog' = <<Ev("is_symlink", path, 0, IsSymlink(fs, path))>>
                       \o (IF IsSymlink(fs, path)
                           THEN <<Ev("remove_file", path, 0, r.ok)>> ELSE <<>>)
        /\ UNCHANGED <<registry, persisted, git, config, ncalls, executor, input, output, procs>>

\* validate_symlink(path); lastCall.name is the path, lastCall.result the
\* boolean returned
LinkValidate(path) ==
    /\ lastCall' = [NoCall EXCEPT !.op = "validate_symlink", !.name = path,
                                  !.result = ToString(ValidateSymlink(fs, path))]
    /\ callLog' = <<>>
    /\ UNCHANGED <<registry, persisted, fs, git, config, ncalls, executor, input, output, procs>>

\* targets of create_symlink: the mapped files, and a path (under the
\* existing worktrees directory) where a directory may be
LinkTargets == Targets \cup {WorktreePath("a")}

NextLink ==
    \/ \E source \in LinkSources : \E target \in LinkTargets \ {source} :
          LinkCreate(source, target)
    \/ \E path \in Paths : LinkRemove(path)
    \/ \E path \in Paths : LinkValidate(path)

SpecLink == InitLink /\ [][NextLink]_vars

----------------------------------------------------------------------------
(* SpecPure: the parsers and conversions, each applied to bounded inputs *)

MaxWorktrees == 2

\* The lines git prints for a sequence of records, each ended by a blank
\* line.  A record: a path, the commit, a branch or a detached HEAD (branch
\* ""), and for each of the lock and prunable marks how it is printed: not
\* at all ("absent"), the key alone ("key"), the key and a reason.
RECURSIVE Listing(_)
Listing(records) ==
    LET MarkLines(key, form) ==
            IF form = "absent" THEN <<>>
            ELSE IF form = "key" THEN <<<<key>>>>
            ELSE <<<<key, "reason text">>>>
        r == Head(records)
    IN  IF records = <<>> THEN <<>>
        ELSE <<<<"worktree", r.path>>, <<"HEAD", r.commit>>>>
             \o (IF r.branch = "" THEN <<<<"detached">>>> ELSE <<<<"branch", r.branch>>>>)
             \o MarkLines("locked", r.locked)
             \o MarkLines("prunable", r.prunable)
             \o <<<<>>>>
             \o Listing(Tail(records))

\* listings of up to MaxWorktrees records with distinct paths, the main
\* worktree first as git prints it
Listings ==
    LET MarkForms == {"absent", "key", "reason"}
        WorktreeRecords ==
            [path : {"/repo", "/repo/worktrees/a", "/repo/worktrees/b"},
             commit : {"c0ffee1"},
             branch : {"", "refs/heads/agent/a"},
             locked : MarkForms, prunable : MarkForms]
    IN  UNION { { Listing(rs) :
                    rs \in { x \in [1..n -> WorktreeRecords] :
                               /\ n > 0 => x[1].path = "/repo"
                               /\ \A i, j \in 1..n : i # j => x[i].path # x[j].path } } :
                n \in 0..MaxWorktrees }

MaxTemplate == 2

\* hook command texts of up to MaxTemplate pieces, and the contexts they
\* are expanded in; a context value may itself read like a placeholder
Templates ==
    LET pieces == {"echo", "{agent_name}", "{branch}", "{worktree_path}",
                   "${AGENT_NAME}", "${BRANCH}", "{name}"}
        contexts == [agent_name : {<<"a">>, <<"{branch}">>, <<"${BRANCH}">>},
                     branch : {<<"agent/a">>},
                     worktree_path : {<<"/repo/worktrees/a">>},
                     project_root : {<<"/repo">>}]
    IN  UNION { [command : [1..n -> pieces], context : contexts] : n \in 1..MaxTemplate }

\* the applications of fn to make: the function's name and its argument
MaxEnvs == 2

\* Registries to save: up to MaxEnvs entries under the names a, b and null,
\* each with its own branch or the branch null, Active or Inactive; the
\* active pointer is None, a name in the map or a name not in it; each with
\* the orders its map may be iterated in.
SavedRegistries ==
    LET names == {"a", "b", "null"}
        links(n) == IF n = "a"
                    THEN <<[source |-> Join(WorktreePath(n), ".env"), target |-> ".env"]>>
                    ELSE <<>>
        maps == UNION { { [n \in D |->
                            AgentEnvironment(n, IF c[n][1] THEN AgentBranchName(n) ELSE "null",
                                             WorktreePath(n), links(n), c[n][2])] :
                          c \in [D -> BOOLEAN \X {"Active", "Inactive"}] } :
                        D \in { D \in SUBSET names : Cardinality(D) <= MaxEnvs } }
        orders(D) == { o \in [1..Cardinality(D) -> D] :
                         \A i, j \in 1..Cardinality(D) : o[i] = o[j] => i = j }
    IN  UNION { { [registry |-> [environments |-> m, active |-> a], order |-> o] :
                    a \in {None, "a", "null"}, o \in orders(DOMAIN m) } : m \in maps }

PureInputs(fn, args) == { [fn |-> fn, arg |-> a] : a \in args }

InitPure ==
    /\ registry = EmptyRegistry
    /\ persisted = EmptyRegistry
    /\ fs = [p \in Paths |-> Absent]
    /\ git = InitGit
    /\ config = NoConfig
    /\ lastCall = NoCall
    /\ callLog = <<>>
    /\ ncalls = 0
    /\ executor = HookExecutorNew
    /\ \/ input \in PureInputs("parse_worktree_list", Listings)
       \/ input \in PureInputs("expand_command", Templates)
       \/ input \in PureInputs("execute_hook", Templates)
       \/ input \in PureInputs("save_registry", SavedRegistries)
       \/ input \in PureInputs("list_environments",
                               { l \in Listings :
                                   \A k \in 1..Len(l) :
                                       l[k] = <<>> \/ l[k][1] \notin {"locked", "prunable"} })
    /\ output = <<>>
    /\ procs = <<>>

\* the function named by input is applied to its argument, once
Applied(fn, result) ==
    /\ lastCall.op = "none"
    /\ input.fn = fn
    /\ output' = result
    /\ lastCall' = [NoCall EXCEPT !.op = fn, !.result = "Ok"]
    /\ UNCHANGED <<registry, persisted, fs, git, config, callLog, ncalls, executor,
                   input, procs>>

\* parse_worktree_list(output of git worktree list --porcelain)
ParseWorktrees == Applied("parse_worktree_list", ParseWorktreeList(input.arg))

\* HookExecutor::expand_command(command, context)
ExpandCommands ==
    Applied("expand_command", ExpandCommand(input.arg.command, input.arg.context))

\* the command text execute_hook of the EnvironmentManager runs
ExpandName ==
    Applied("execute_hook", Replace(input.arg.command, "{name}", input.arg.context.agent_name))

\* save_registry, then load_registry of the document it wrote
SaveAndLoad ==
    Applied("save_registry",
            ParseRegistry(SerializeRegistry(input.arg.registry, input.arg.order)))

\* the repository path of the manager's GitManager: new(Path::new("."))
RepoPath == "."

\* list_environments: the parsed listing without the records whose path
\* equals get_repo_path()
ListEnvironments(lines) ==
    SelectSeq(ParseWorktreeList(lines), LAMBDA w : w.path # RepoPath)

ListEnvs == Applied("list_environments", ListEnvironments(input.arg))

NextPure ==
    \/ ParseWorktrees
    \/ ExpandCommands
    \/ ExpandName
    \/ SaveAndLoad
    \/ ListEnvs

SpecPure == InitPure /\ [][NextPure]_vars

----------------------------------------------------------------------------
(* SpecProcs: two twin processes on one repository.  A process builds its    *)
(* EnvironmentManager (new reads the registry document into its own memory), *)
(* calls create_environment for its own name (which writes the document      *)
(* back), and may take the FileLock of utils.rs before and release it after. *)

Procs == {"p1", "p2"}

FileLockAcquireExclusive(ps, p) ==
    IF \E q \in DOMAIN ps : q # p /\ ps[q].lock THEN "Err" ELSE "Ok"

\* FileLock::acquire: Ok(()), whoever holds the lock
FileLockAcquire(ps, p) == "Ok"

InitProcs ==
    /\ registry = EmptyRegistry
    /\ persisted = EmptyRegistry
    /\ fs \in { [p \in Paths |-> IF p = ".env" THEN e ELSE Absent] : e \in {Absent, File} }
    /\ git = InitGit
    /\ config \in Configs
    /\ lastCall = NoCall
    /\ callLog = <<>>
    /\ ncalls = 0
    /\ executor = HookExecutorNew
    /\ input = <<>>
    /\ output = <<>>
    /\ procs = [p \in Procs |->
                  [pc |-> "start", name |-> IF p = "p1" THEN "a" ELSE "b",
                   registry |-> EmptyRegistry, lock |-> FALSE, result |-> None,
                   loaded_at |-> 0, returned_at |-> 0]]

\* FileLock::acquire, called before the manager is built
ProcAcquire(p) ==
    /\ procs[p].pc = "start"
    /\ ~procs[p].lock
    /\ procs' = IF FileLockAcquire(procs, p) = "Ok"
                THEN [procs EXCEPT ![p].lock = TRUE]
                ELSE [procs EXCEPT ![p].pc = "refused"]
    /\ UNCHANGED <<registry, persisted, fs, git, config, lastCall, callLog, ncalls,
                   executor, input, output>>

\* EnvironmentManager::new: load_registry reads the document as it is now
ProcNew(p) ==
    /\ procs[p].pc = "start"
    /\ procs' = [procs EXCEPT ![p].pc = "loaded", ![p].registry = persisted,
                              ![p].loaded_at = ncalls]
    /\ UNCHANGED <<registry, persisted, fs, git, config, lastCall, callLog, ncalls,
                   executor, input, output>>

\* create_environment on the process's own manager
ProcCreate(p) ==
    /\ procs[p].pc = "loaded"
    /\ \E in \in CreateInputs, timestamp \in Timestamps :
          \E r \in { CreateEnvironment([World EXCEPT !.registry = procs[p].registry],
                                       config, procs[p].name, None,
                                       in[1], in[2], in[3], timestamp) } :
              /\ procs' = [procs EXCEPT ![p].pc = "done",
                                        ![p].registry = r.w.registry,
                                        ![p].result = r.result,
                                        ![p].returned_at = ncalls + 1]
              /\ persisted' = r.w.persisted
              /\ fs' = r.w.fs
              /\ git' = r.w.git
              /\ callLog' = r.w.log
              /\ lastCall' = [op |-> "create", name |-> procs[p].name,
                              result |-> r.result, stage |-> r.stage,
                              branch |-> r.branch, env |-> r.env, force |-> FALSE]
              /\ ncalls' = ncalls + 1
    /\ UNCHANGED <<registry, config, executor, input, output>>

\* FileLock::release
ProcRelease(p) ==
    /\ procs[p].pc = "done"
    /\ procs[p].lock
    /\ procs' = [procs EXCEPT ![p].lock = FALSE]
    /\ UNCHANGED <<registry, persisted, fs, git, config, lastCall, callLog, ncalls,
                   executor, input, output>>

NextProcs ==
    \/ \E p \in Procs : ProcAcquire(p)
    \/ \E p \in Procs : ProcNew(p)
    \/ \E p \in Procs : ProcCreate(p)
    \/ \E p \in Procs : ProcRelease(p)

SpecProcs == InitProcs /\ [][NextProcs]_vars

----------------------------------------------------------------------------
(* SpecCli: the commands of cli/commands.rs, one action per command *)

MaxCommands == 2

SideEffectsAlways(args) == TRUE

\* hooks and links are the side effects: skipped in git_only mode
SideEffects(args) == ~args.git_only

PreCreateStopsWhateverTheFlag(hook, r) == r.err \/ ~r.success

\* the match of handle_add's pre_create loop: the command returns an error
\* for a failed result or an Err of a hook that does not continue on error
PreCreateStops(hook, r) ==
    \/ ~r.err /\ ~r.success /\ ~hook.continue_on_error
    \/ r.err /\ ~hook.continue_on_error

PostCreateStopsLikePreCreate(hook, r) == PreCreateStops(hook, r)

\* the match of handle_add's post_create loop: every arm only prints, so no
\* result of a post_create hook ends the loop or the command
PostCreateStops(hook, r) == FALSE

\* handle_add with args.path and args.new_branch given.  The hooks run by
\* HookExecutor::new(), in the worktree path as working directory: a command
\* cannot be spawned in a directory that does not exist.  fault: "none",
\* "branch_list", "add", "add_info", or "mkdir" / "link" at mapping i.
HandleAdd(w, cfg, args, out_pre, out_post, fault) ==
    LET path == args.path
        Outcome(f, out, i) == IF f[path].kind = "dir" THEN out[i] ELSE "spawn_error"
        RECURSIVE PreCreate(_, _)
        PreCreate(w0, i) ==
            IF i > Len(cfg.hooks.pre_create) THEN [w |-> w0, ok |-> TRUE]
            ELSE LET hook == cfg.hooks.pre_create[i]
                     r == Execute(HookExecutorNew, hook, Outcome(w0.fs, out_pre, i))
                     w1 == [w0 EXCEPT !.log = Append(@, Ev("pre_create", "hook", i, r.success))]
                 IN  IF PreCreateStops(hook, r) THEN [w |-> w1, ok |-> FALSE]
                     ELSE PreCreate(w1, i + 1)
        RECURSIVE AddLinks(_, _)
        AddLinks(w0, i) ==
            IF i > Len(cfg.files) THEN w0
            ELSE LET source == cfg.files[i]
                     target == Join(path, cfg.files[i])
                     parent == Parent(target)
                     mkdir_fails == /\ fault.point = "mkdir" /\ fault.i = i
                                    /\ w0.fs[parent].kind # "dir"
                     w1 == Logged([w0 EXCEPT !.fs = CreateDirAll(@, parent)],
                                  "create_dir_all", parent, TRUE)
                     link == CreateSymlink(w1.fs, source, target,
                                           fault.point = "link" /\ fault.i = i)
                 IN  IF ~PathExists(w0.fs, source)
                     THEN AddLinks(Logged(w0, "source_exists", source, FALSE), i + 1)
                     ELSE IF mkdir_fails
                     THEN AddLinks(Logged(w0, "create_dir_all", parent, FALSE), i + 1)
                     ELSE AddLinks(Logged([w1 EXCEPT !.fs = link.fs],
                                          "create_symlink", target, link.ok), i + 1)
        RECURSIVE PostCreate(_, _)
        PostCreate(w0, i) ==
            IF i > Len(cfg.hooks.post_create) THEN [w |-> w0, ok |-> TRUE]
            ELSE LET hook == cfg.hooks.post_create[i]
                     r == Execute(HookExecutorNew, hook, Outcome(w0.fs, out_post, i))
                     w1 == [w0 EXCEPT !.log = Append(@, Ev("post_create", "hook", i, r.success))]
                 IN  IF PostCreateStops(hook, r) THEN [w |-> w1, ok |-> FALSE]
                     ELSE PostCreate(w1, i + 1)
        w0 == Logged(w, "git_branch", args.new_branch, fault.point # "branch_list")
        only == AddWorktree(w0.git, w0.fs, path, args.new_branch, fault.point)
        pre == PreCreate(w0, 1)
        add == AddWorktree(pre.w.git, pre.w.fs, path, args.new_branch, fault.point)
        wa == Logged([pre.w EXCEPT !.git = add.git, !.fs = add.fs],
                     "git_worktree_add", path, add.added)
        w1 == IF add.added THEN Logged(wa, "git_worktree_list", path, add.ok) ELSE wa
        post == PostCreate(AddLinks(w1, 1), 1)
    IN  IF fault.point = "branch_list"
        THEN Ret(w0, "Git", "resolve", None, NoEnv)
        ELSE IF ~SideEffects(args)
        THEN Ret(Logged([w0 EXCEPT !.git = only.git, !.fs = only.fs],
                        "git_worktree_add", path, only.added),
                 IF only.added THEN "Ok" ELSE "Git", "git_only", args.new_branch, NoEnv)
        ELSE IF ~pre.ok
        THEN Ret(pre.w, "Hook", "pre_create", args.new_branch, NoEnv)
        ELSE IF ~add.ok
        THEN Ret(w1, "Git", IF add.added THEN "add_info" ELSE "add", args.new_branch, NoEnv)
        ELSE IF ~post.ok
        THEN Ret(post.w, "Hook", "post_create", args.new_branch, NoEnv)
        ELSE Ret(post.w, "Ok", "done", args.new_branch, NoEnv)

\* handle_remove with the worktree named by its path.  Without force the
\* user is asked and may decline.  Hooks and link cleanup are skipped in
\* git_only mode; a failing pre_remove hook stops the command unless it
\* continues on error; link and post_remove failures are warnings.
\* fault: "none", "list", "rm_worktree", or "rm_link" at mapping i.
HandleRemove(w, cfg, args, out_pre, out_post, fault, dirty) ==
    LET path == args.path
        stage(st) == IF args.git_only THEN "git_only" ELSE st
        Outcome(f, out, i) == IF f[path].kind = "dir" THEN out[i] ELSE "spawn_error"
        RECURSIVE PreRemove(_, _)
        PreRemove(w0, i) ==
            IF i > Len(cfg.hooks.pre_remove) THEN [w |-> w0, ok |-> TRUE]
            ELSE LET hook == cfg.hooks.pre_remove[i]
                     r == Execute(HookExecutorNew, hook, Outcome(w0.fs, out_pre, i))
                     w1 == [w0 EXCEPT !.log = Append(@, Ev("pre_remove", "hook", i, r.success))]
                 IN  IF PreCreateStops(hook, r) THEN [w |-> w1, ok |-> FALSE]
                     ELSE PreRemove(w1, i + 1)
        RECURSIVE RemoveLinks(_, _)
        RemoveLinks(w0, i) ==
            IF i > Len(cfg.files) THEN w0
            ELSE LET target == Join(path, cfg.files[i])
                     rm == TryRemoveSymlink(w0.fs, target,
                                            fault.point = "rm_link" /\ fault.i = i)
                 IN  IF EntryAt(w0.fs, target)
                     THEN RemoveLinks(Logged([w0 EXCEPT !.fs = rm.fs],
                                             "remove_symlink", target, rm.ok), i + 1)
                     ELSE RemoveLinks(w0, i + 1)
        RECURSIVE PostRemove(_, _)
        PostRemove(w0, i) ==
            IF i > Len(cfg.hooks.post_remove) THEN w0
            ELSE LET r == Execute(HookExecutorNew, cfg.hooks.post_remove[i],
                                  Outcome(w0.fs, out_post, i))
                 IN  PostRemove([w0 EXCEPT !.log =
                                    Append(@, Ev("post_remove", "hook", i, r.success))],
                                i + 1)
        w0 == Logged(w, "git_worktree_list", path, fault.point # "list")
        pre == IF SideEffects(args) THEN PreRemove(w0, 1) ELSE [w |-> w0, ok |-> TRUE]
        wl == IF SideEffects(args) THEN RemoveLinks(pre.w, 1) ELSE pre.w
        rw == RemoveWorktree(wl.git, wl.fs, path, args.force, dirty,
                             fault.point = "rm_worktree")
        gone == [p \in DOMAIN rw.fs |->
                    IF rw.ok /\ \E t \in Targets \cup {"cfg"} : p = Join(path, t)
                    THEN Absent ELSE rw.fs[p]]
        w1 == Logged([wl EXCEPT !.git = rw.git, !.fs = gone],
                     "git_worktree_remove", path, rw.ok)
    IN  IF fault.point = "list"
        THEN Ret(w0, "Git", "resolve", None, NoEnv)
        ELSE IF ~args.force /\ ~args.confirmed
        THEN Ret(w0, "Ok", "cancelled", None, NoEnv)
        ELSE IF ~pre.ok
        THEN Ret(pre.w, "Hook", stage("pre_remove"), None, NoEnv)
        ELSE IF ~rw.ok
        THEN Ret(w1, "Git", stage("worktree"), None, NoEnv)
        ELSE Ret(IF SideEffects(args) THEN PostRemove(w1, 1) ELSE w1,
                 "Ok", stage("done"), None, NoEnv)

\* The repository before the first command: the main repository may have a
\* real .env file and a cfg directory with local.toml; a worktree's own
\* files are paths under its directory.
InitCli ==
    /\ registry = EmptyRegistry
    /\ persisted = EmptyRegistry
    /\ fs \in { [p \in Paths \cup { Join(WorktreePath(n), t) :
                                     n \in Names, t \in Targets \cup {"cfg"} } |->
                   IF p = ".env" THEN e
                   ELSE IF p = "cfg" /\ c THEN Dir("user")
                   ELSE IF p = "cfg/local.toml" /\ c THEN File
                   ELSE Absent] : e \in {Absent, File}, c \in BOOLEAN }
    /\ git = InitGit
    /\ config \in { [files |-> fl,
                     hooks |-> [pre_create |-> hs[1], post_create |-> hs[2],
                                pre_remove |-> hs[2], post_remove |-> hs[2]]] :
                    fl \in FileLists,
                    hs \in { <<h, h>> :
                               h \in HookLists \cup {<<HookCommand(TRUE), HookCommand(TRUE)>>} }
                           \cup { << <<>>, <<HookCommand(FALSE), HookCommand(TRUE)>> >> } }
    /\ lastCall = NoCall
    /\ callLog = <<>>
    /\ ncalls = 0
    /\ executor = HookExecutorNew
    /\ input = <<>>
    /\ output = <<>>
    /\ procs = <<>>

\* twin add <path> -b <branch> [--git-only].  Inputs: how each hook's
\* command exits where it can be spawned, and at most one injected fault.
CliAdd(name, git_only) ==
    /\ ncalls < MaxCommands
    /\ \E in \in
            { <<out_pre, out_post, NoFault>> :
                out_pre \in [1..Len(config.hooks.pre_create) -> {"exit0", "nonzero"}],
                out_post \in [1..Len(config.hooks.post_create) -> {"exit0", "nonzero"}] }
            \cup { <<[i \in 1..Len(config.hooks.pre_create) |-> "exit0"],
                     [i \in 1..Len(config.hooks.post_create) |-> "exit0"], fault>> :
                   fault \in { f \in CreateFaults : f.point # "save" } } :
          Returned("add", WorktreePath(name), git_only,
                   HandleAdd(World, config,
                             [path |-> WorktreePath(name),
                              new_branch |-> AgentBranchName(name),
                              git_only |-> git_only],
                             in[1], in[2], in[3]))

\* twin remove <path> [--force] [--git-only].  Inputs: the answer to the
\* prompt, how each hook's command exits, local changes in the worktree,
\* and at most one injected fault.
CliRemove(name, git_only, force) ==
    /\ ncalls < MaxCommands
    /\ \E in \in
            { <<out_pre, out_post, NoFault, dirty, confirmed>> :
                out_pre \in [1..Len(config.hooks.pre_remove) -> {"exit0", "nonzero"}],
                out_post \in [1..Len(config.hooks.post_remove) -> {"exit0", "nonzero"}],
                dirty \in BOOLEAN, confirmed \in {TRUE, force} }
            \cup { <<[i \in 1..Len(config.hooks.pre_remove) |-> "exit0"],
                     [i \in 1..Len(config.hooks.post_remove) |-> "exit0"],
                     fault, FALSE, TRUE>> :
                   fault \in { [point |-> pt, i |-> 0] : pt \in {"list", "rm_worktree"} }
                             \cup { [point |-> "rm_link", i |-> i] : i \in 1..2 } } :
          Returned("remove", WorktreePath(name), force,
                   HandleRemove(World, config,
                                [path |-> WorktreePath(name), git_only |-> git_only,
                                 force |-> force, confirmed |-> in[5]],
                                in[1], in[2], in[3], in[4]))

NextCli ==
    \/ \E name \in Names, git_only \in BOOLEAN : CliAdd(name, git_only)
    \/ \E name \in Names, git_only \in BOOLEAN, force \in BOOLEAN :
          CliRemove(name, git_only, force)

SpecCli == InitCli /\ [][NextCli]_vars

----------------------------------------------------------------------------
(* SpecWait: a call's hooks, one step per system call.  execute_hook         *)
(* (environment.rs) and execute_command (hooks.rs) start `sh -c command`     *)
(* and block in Command::output() until the child has exited; the child is   *)
(* the hook's process, which exits with status 0, exits nonzero, or never    *)
(* exits.  Time passes in ticks while the caller waits.                      *)

MaxElapsed == 3

\* HookExecutor.timeout_seconds, as a number of ticks
TimeoutTicks == 1

\* the hooks one call runs, in order: each with its flag and its process
HookRuns ==
    UNION { [1..n -> [continue_on_error : BOOLEAN,
                      behaviour : {"exit0", "nonzero", "never"}]] : n \in 0..2 }

InitWait ==
    /\ registry = EmptyRegistry
    /\ persisted = EmptyRegistry
    /\ fs = [p \in Paths |-> Absent]
    /\ git = InitGit
    /\ config = NoConfig
    /\ lastCall = NoCall
    /\ callLog = <<>>
    /\ ncalls = 0
    /\ executor = HookExecutorNew
    /\ input \in HookRuns
    /\ output = 0
    /\ procs = [state |-> "none", elapsed |-> 0]

Pending == lastCall.op # "none" /\ lastCall.result = None

\* create_environment or remove_environment is called
CallStart(op) ==
    /\ lastCall.op = "none"
    /\ lastCall' = [NoCall EXCEPT !.op = op]
    /\ output' = 1
    /\ UNCHANGED <<registry, persisted, fs, git, config, callLog, ncalls, executor,
                   input, procs>>

\* Command::output(), first half: the child is spawned
HookSpawn ==
    /\ Pending
    /\ output <= Len(input)
    /\ procs.state = "none"
    /\ procs' = [state |-> "running", elapsed |-> 0]
    /\ UNCHANGED <<registry, persisted, fs, git, config, lastCall, callLog, ncalls,
                   executor, input, output>>

\* the child exits by itself, if it is one that does
ChildExit ==
    /\ procs.state = "running"
    /\ input[output].behaviour # "never"
    /\ procs' = [procs EXCEPT !.state = "exited"]
    /\ UNCHANGED <<registry, persisted, fs, git, config, lastCall, callLog, ncalls,
                   executor, input, output>>

\* time passes while the caller is blocked; no code looks at the clock
Tick ==
    /\ procs.state = "running"
    /\ procs.elapsed < MaxElapsed
    /\ procs' = [procs EXCEPT !.elapsed = @ + 1]
    /\ UNCHANGED <<registry, persisted, fs, git, config, lastCall, callLog, ncalls,
                   executor, input, output>>

\* Command::output(), second half: it returns once the child has exited,
\* in the branch taken with a timeout as in the one without.
\* A failed hook ends the call with an error unless it is tolerated.
HookWait ==
    /\ Pending
    /\ IF TimeoutTicks > 0
       THEN procs.state = "exited"
       ELSE procs.state = "exited"
    /\ LET ok == input[output].behaviour = "exit0"
       IN  /\ callLog' = Append(callLog, Ev(lastCall.op, "hook", output, ok))
           /\ IF ExecuteHook(input[output], ok)
              THEN /\ output' = output + 1
                   /\ UNCHANGED lastCall
              ELSE /\ lastCall' = [lastCall EXCEPT !.result = "Hook"]
                   /\ UNCHANGED output
    /\ procs' = [state |-> "none", elapsed |-> 0]
    /\ UNCHANGED <<registry, persisted, fs, git, config, ncalls, executor, input>>

\* every hook has run: the call returns Ok
CallReturn ==
    /\ Pending
    /\ output > Len(input)
    /\ lastCall' = [lastCall EXCEPT !.result = "Ok"]
    /\ ncalls' = ncalls + 1
    /\ UNCHANGED <<registry, persisted, fs, git, config, callLog, executor, input,
                   output, procs>>

NextWait ==
    \/ \E op \in {"create", "remove"} : CallStart(op)
    \/ HookSpawn
    \/ ChildExit
    \/ Tick
    \/ HookWait
    \/ CallReturn

SpecWait == InitWait /\ [][NextWait]_vars

\* The caller and a child that is going to exit are both scheduled: a step
\* that stays possible is eventually taken.
SpecWaitFair == SpecWait /\ WF_vars(NextWait)

----------------------------------------------------------------------------
(* What the last call did, read from its log *)

Did(e) == \E k \in 1..Len(callLog) : callLog[k].ev = e /\ callLog[k].ok

Failed(e) == \E k \in 1..Len(callLog) : callLog[k].ev = e /\ ~callLog[k].ok

\* a hook of the phase exited nonzero and its continue_on_error is false
HardHookFailure(phase, hooks) ==
    \E k \in 1..Len(callLog) :
        /\ callLog[k].ev = phase
        /\ ~callLog[k].ok
        /\ ~hooks[callLog[k].i].continue_on_error

CreateReturned == lastCall.op = "create"

CreateFailedAfterAdd ==
    CreateReturned /\ lastCall.result # "Ok" /\ Did("git_worktree_add")

ActiveCount(reg) ==
    Cardinality({ n \in DOMAIN reg.environments : reg.environments[n].status = "Active" })

----------------------------------------------------------------------------
(* Claims *)

\* C1: when create_environment returns an error after the worktree was added
\* (parent directory creation, create_symlink, the registry write or a
\* post_create hook with continue_on_error=false failed), the worktree
\* directory does not exist and the Registry has no entry for the name.
C1_CreateFailureLeavesNoWorktreeNoEntry ==
    CreateFailedAfterAdd =>
        /\ ~EntryAt(fs, WorktreePath(lastCall.name))
        /\ ~RegistryHas(registry, lastCall.name)

C1_Witness ==
    /\ CreateFailedAfterAdd
    /\ Failed("save_registry")
    /\ Did("create_symlink")
    /\ Did("remove_dir_all")

\* C2: create_environment for a name that is already a Registry key returns
\* AlreadyExists, runs no hook, git command or link operation, and leaves
\* the Registry (in memory and persisted), the filesystem and git unchanged.
C2_AlreadyExistsHasNoEffect ==
    [][ (lastCall'.op = "create" /\ ncalls' = ncalls + 1
         /\ RegistryHas(registry, lastCall'.name))
        => /\ lastCall'.result = "AlreadyExists"
           /\ callLog' = <<>>
           /\ registry' = registry
           /\ persisted' = persisted
           /\ fs' = fs
           /\ git' = git ]_vars

C2_Witness ==
    /\ CreateReturned
    /\ lastCall.result = "AlreadyExists"
    /\ DOMAIN registry.environments = {lastCall.name}

\* C3: when create_environment returns an error after the worktree was
\* added, git no longer lists the worktree and the branch created for it no
\* longer exists.
C3_CreateFailureLeavesNoGitState ==
    CreateFailedAfterAdd =>
        /\ ~Registered(git, WorktreePath(lastCall.name))
        /\ lastCall.branch \notin git.branches

\* C4: when a pre_create hook with continue_on_error=false fails, or the
\* worktree add fails, create_environment returns the error having changed
\* neither the Registry nor the filesystem (a directory that was at the
\* worktree path is still there).
C4_EarlyFailureChangesNothing ==
    [][ (lastCall'.op = "create" /\ ncalls' = ncalls + 1
         /\ (\/ \E k \in 1..Len(callLog') :
                    /\ callLog'[k].ev = "pre_create"
                    /\ ~callLog'[k].ok
                    /\ ~config.hooks.pre_create[callLog'[k].i].continue_on_error
             \/ \E k \in 1..Len(callLog') :
                    callLog'[k].ev = "git_worktree_add" /\ ~callLog'[k].ok))
        => /\ lastCall'.result # "Ok"
           /\ registry' = registry
           /\ persisted' = persisted
           /\ fs' = fs ]_vars

\* C5: when a post_create hook with continue_on_error=false exits nonzero,
\* create_environment returns a Hook error, and on return every link it
\* made, the worktree directory and the Registry entry are gone and the
\* Registry document was written again without the entry.
C5_PostCreateFailureRollsBack ==
    (CreateReturned /\ HardHookFailure("post_create", config.hooks.post_create)) =>
        /\ lastCall.result = "Hook"
        /\ \A i \in 1..Len(config.files) : ~EntryAt(fs, config.files[i])
        /\ ~EntryAt(fs, WorktreePath(lastCall.name))
        /\ ~RegistryHas(registry, lastCall.name)
        /\ ~RegistryHas(persisted, lastCall.name)
        /\ \E k \in 1..Len(callLog) :
              /\ callLog[k].ev = "post_create" /\ ~callLog[k].ok
              /\ \E m \in (k + 1)..Len(callLog) :
                    callLog[m].ev = "save_registry" /\ callLog[m].ok

C5_Witness ==
    /\ CreateReturned
    /\ HardHookFailure("post_create", config.hooks.post_create)
    /\ Len(config.files) = 2
    /\ Did("create_symlink")

\* C6: when create_environment(name) returns Ok, the returned environment
\* has that name and status Active, the Registry holds it under name with
\* status Active, active = name, and the environment that was active before
\* the call is now Inactive.
C6_CreateSuccessMakesSoleActive ==
    [][ (lastCall'.op = "create" /\ lastCall'.result = "Ok" /\ ncalls' = ncalls + 1)
        => /\ lastCall'.env.name = lastCall'.name
           /\ lastCall'.env.status = "Active"
           /\ RegistryHas(registry', lastCall'.name)
           /\ registry'.environments[lastCall'.name].status = "Active"
           /\ registry'.environments[lastCall'.name].name = lastCall'.name
           /\ registry'.active = lastCall'.name
           /\ (registry.active # None /\ RegistryHas(registry, registry.active))
                => /\ RegistryHas(registry', registry.active)
                   /\ registry'.environments[registry.active].status = "Inactive" ]_vars

C6_Witness ==
    /\ CreateReturned
    /\ lastCall.result = "Ok"
    /\ registry.active = lastCall.name
    /\ \E n \in DOMAIN registry.environments :
          n # lastCall.name /\ registry.environments[n].status = "Inactive"

\* C7: after any sequence of Registry add, remove and set_active calls at
\* most one environment has status Active.
C7_AtMostOneActive == ActiveCount(registry) <= 1

\* C8: after any sequence of Registry add, remove and set_active calls,
\* active is absent or the name of an environment in the Registry.
C8_ActiveNamesAnEntry ==
    registry.active = None \/ RegistryHas(registry, registry.active)

\* C9: set_active(name) for a name in the Registry leaves that entry Active
\* and active = name, leaves the previously active entry (if another one)
\* Inactive, and changes the status of no other entry.
C9_SetActiveFrame ==
    [][ (lastCall'.op = "set_active" /\ lastCall'.name # None
         /\ RegistryHas(registry, lastCall'.name))
        => /\ DOMAIN registry'.environments = DOMAIN registry.environments
           /\ registry'.environments[lastCall'.name].status = "Active"
           /\ registry'.active = lastCall'.name
           /\ \A n \in DOMAIN registry.environments :
                 IF n = lastCall'.name THEN TRUE
                 ELSE IF n = registry.active
                 THEN registry'.environments[n].status = "Inactive"
                 ELSE registry'.environments[n].status
                        = registry.environments[n].status ]_vars

C9_Witness ==
    /\ lastCall.op = "set_active"
    /\ RegistryHas(registry, lastCall.name)
    /\ registry.active = lastCall.name
    /\ registry.environments[lastCall.name].status = "Active"
    /\ \E n \in DOMAIN registry.environments :
          n # lastCall.name /\ registry.environments[n].status = "Inactive"
    /\ \E n \in DOMAIN registry.environments :
          n # lastCall.name /\ registry.environments[n].status = "Creating"

\* C10: a name generate_unique_branch_name returns successfully is the name
\* of no existing branch, whatever the branches are, the current branch and
\* branches checked out in another worktree included.
C10_UniqueNameIsNoExistingBranch ==
    (lastCall.op = "generate_unique" /\ lastCall.result = "Ok")
        => lastCall.branch \notin git.branches

\* C11: generate_unique_branch_name(base, N) returns the first name that is
\* not an existing branch in the order base, base-1, .., base-N; only when
\* all N+1 of these exist it returns base with the timestamp suffix; it
\* returns an error only when that name exists too; and it makes at most
\* N+2 branch_exists calls.
C11_FirstFreeNameInOrder ==
    lastCall.op = "generate_unique" =>
        \E N \in 0..(MaxNumbered + 1) :
            /\ lastCall.stage = ToString(N)
            /\ Len(callLog) <= N + 2
            /\ LET base == lastCall.name
                   order == [k \in 1..(N + 1) |->
                                IF k = 1 THEN base ELSE Numbered(base, k - 1)]
                   free == { k \in 1..(N + 1) : order[k] \notin git.branches }
                   stamped == { Timestamped(base, t) : t \in Timestamps }
               IN  IF free # {}
                   THEN /\ lastCall.result = "Ok"
                        /\ \E k \in free :
                              /\ lastCall.branch = order[k]
                              /\ \A j \in free : k <= j
                   ELSE IF lastCall.result = "Ok"
                   THEN lastCall.branch \in stamped \ git.branches
                   ELSE stamped \subseteq git.branches

\* a hook sequence has returned: HookExecutor::execute_hooks or a hook loop
\* of the EnvironmentManager
HookSequenceReturned == lastCall.op \in {"execute_hooks", "hook_loop"}

\* C12: in a hook sequence, a failing hook whose own continue_on_error is
\* true never stops the sequence (the next hook of the list is started) and
\* never makes the sequence return an error.
C12_ToleratedFailureNeverStops ==
    HookSequenceReturned =>
        LET hooks == config.hooks[lastCall.name]
        IN  \A k \in 1..Len(callLog) :
                (~callLog[k].ok /\ hooks[callLog[k].i].continue_on_error)
                => /\ callLog[k].i < Len(hooks)
                        => /\ k < Len(callLog)
                           /\ callLog[k + 1].i = callLog[k].i + 1
                   /\ (k = Len(callLog)) => lastCall.result = "Ok"

\* C13: a hook sequence starts the hooks in declared order, each at most
\* once, and once a hook with continue_on_error = false has failed no later
\* hook is started and a Hook error is returned.
C13_DeclaredOrderHardFailureStops ==
    HookSequenceReturned =>
        LET hooks == config.hooks[lastCall.name]
        IN  /\ \A k \in 1..Len(callLog) : callLog[k].i = k
            /\ Len(callLog) <= Len(hooks)
            /\ \A k \in 1..Len(callLog) :
                  (~callLog[k].ok /\ ~hooks[callLog[k].i].continue_on_error)
                  => /\ k = Len(callLog)
                     /\ lastCall.result = "Hook"

\* a remove_environment call is being made
RemoveCalled == lastCall'.op = "remove" /\ ncalls' = ncalls + 1

RemoveReturned == lastCall.op = "remove"

\* C14: remove_environment(name, force) for a name that is not a Registry
\* key returns NotFound, for either value of force, runs no hook and leaves
\* the Registry (in memory and persisted), the filesystem and git unchanged.
C14_RemoveUnknownHasNoEffect ==
    [][ (RemoveCalled /\ ~RegistryHas(registry, lastCall'.name))
        => /\ lastCall'.result = "NotFound"
           /\ callLog' = <<>>
           /\ registry' = registry
           /\ persisted' = persisted
           /\ fs' = fs
           /\ git' = git ]_vars

C14_Witness ==
    /\ RemoveReturned
    /\ lastCall.force
    /\ lastCall.result = "NotFound"
    /\ Len(config.hooks.pre_remove) > 0
    /\ DOMAIN registry.environments # {}

\* C15: when a pre_remove hook with continue_on_error=false fails,
\* remove_environment returns the Hook error, also under force, and no
\* link, worktree or Registry entry has been removed: nothing but the
\* pre_remove hooks ran and the Registry, the filesystem and git are as they
\* were.
C15_PreRemoveFailureRemovesNothing ==
    [][ (RemoveCalled /\ RegistryHas(registry, lastCall'.name)
         /\ \E k \in 1..Len(callLog') :
               /\ callLog'[k].ev = "pre_remove"
               /\ ~callLog'[k].ok
               /\ ~config.hooks.pre_remove[callLog'[k].i].continue_on_error)
        => /\ lastCall'.result = "Hook"
           /\ \A k \in 1..Len(callLog') : callLog'[k].ev = "pre_remove"
           /\ registry' = registry
           /\ persisted' = persisted
           /\ fs' = fs
           /\ git' = git ]_vars

C15_Witness ==
    /\ RemoveReturned
    /\ lastCall.force
    /\ lastCall.result = "Hook"
    /\ HardHookFailure("pre_remove", config.hooks.pre_remove)
    /\ RegistryHas(registry, lastCall.name)
    /\ Len(registry.environments[lastCall.name].symlinks) = 2
    /\ \A i \in 1..2 :
          IsSymlink(fs, registry.environments[lastCall.name].symlinks[i].target)

\* C16: when a link removal of remove_environment fails, under force every
\* link of the environment is still attempted, in order, and the call goes
\* on to the worktree removal; without force the call returns that error at
\* once, with the worktree and the Registry entry still present.
C16_ForceContinuesLinkRemoval ==
    [][ (RemoveCalled /\ RegistryHas(registry, lastCall'.name)
         /\ \E k \in 1..Len(callLog') :
               callLog'[k].ev = "remove_symlink" /\ ~callLog'[k].ok)
        => LET env == registry.environments[lastCall'.name]
               attempts == SelectSeq(callLog', LAMBDA e : e.ev = "remove_symlink")
           IN  IF lastCall'.force
               THEN /\ Len(attempts) = Len(env.symlinks)
                    /\ \A i \in 1..Len(attempts) :
                          attempts[i].arg = env.symlinks[i].target
                    /\ \E k \in 1..Len(callLog') :
                          callLog'[k].ev = "git_worktree_remove"
               ELSE /\ lastCall'.result = "Io"
                    /\ ~attempts[Len(attempts)].ok
                    /\ callLog'[Len(callLog')].ev = "remove_symlink"
                    /\ Registered(git', env.worktree_path)
                    /\ EntryAt(fs', env.worktree_path)
                    /\ RegistryHas(registry', lastCall'.name)
                    /\ RegistryHas(persisted', lastCall'.name) ]_vars

\* under force the first of two link removals failed, the second was made,
\* and the worktree is gone
C16_Witness ==
    /\ RemoveReturned
    /\ lastCall.force
    /\ \E k \in 1..Len(callLog) :
          /\ callLog[k].ev = "remove_symlink" /\ ~callLog[k].ok
          /\ \E m \in (k + 1)..Len(callLog) :
                callLog[m].ev = "remove_symlink" /\ callLog[m].ok
    /\ Did("git_worktree_remove")
    /\ ~RegistryHas(registry, lastCall.name)

\* C17: once remove_environment has removed the worktree and removed and
\* persisted the Registry entry, a failing post_remove hook (also one with
\* continue_on_error=false) does not make it return an error, and the
\* removal stays as it is.
C17_PostRemoveFailureIsNoError ==
    (RemoveReturned /\ Did("git_worktree_remove") /\ Did("save_registry")
     /\ Failed("post_remove"))
        => /\ lastCall.result = "Ok"
           /\ ~EntryAt(fs, WorktreePath(lastCall.name))
           /\ ~RegistryHas(registry, lastCall.name)
           /\ ~RegistryHas(persisted, lastCall.name)

\* every failed step of the last call is a hook whose continue_on_error is
\* true, or the is_symlink question answered with no
OnlyToleratedFailures(log, hooks) ==
    \A k \in 1..Len(log) :
        \/ log[k].ok
        \/ log[k].ev = "is_symlink"
        \/ /\ log[k].ev \in {"pre_remove", "post_remove"}
           /\ hooks[log[k].ev][log[k].i].continue_on_error

\* C18: in remove_environment(name, force=false), a link whose target no
\* longer exists is removed as a no-op: the removal reports success and
\* nothing appears at the target; when nothing else fails the call returns
\* Ok with the worktree removed and no Registry entry for name.
C18_MissingLinkTargetIsNoOp ==
    [][ (RemoveCalled /\ ~lastCall'.force /\ RegistryHas(registry, lastCall'.name))
        => LET env == registry.environments[lastCall'.name]
               missing == { i \in 1..Len(env.symlinks) :
                              ~EntryAt(fs, env.symlinks[i].target) }
           IN  missing # {} =>
               /\ \A i \in missing :
                     /\ ~EntryAt(fs', env.symlinks[i].target)
                     /\ \A k \in 1..Len(callLog') :
                           (/\ callLog'[k].ev = "remove_symlink"
                            /\ callLog'[k].arg = env.symlinks[i].target)
                           => callLog'[k].ok
               /\ OnlyToleratedFailures(callLog', config.hooks)
                     => /\ lastCall'.result = "Ok"
                        /\ \A i \in missing :
                              \E k \in 1..Len(callLog') :
                                 /\ callLog'[k].ev = "remove_symlink"
                                 /\ callLog'[k].arg = env.symlinks[i].target
                        /\ ~EntryAt(fs', env.worktree_path)
                        /\ ~Registered(git', env.worktree_path)
                        /\ ~RegistryHas(registry', lastCall'.name)
                        /\ ~RegistryHas(persisted', lastCall'.name) ]_vars

C18_Witness ==
    /\ RemoveReturned
    /\ ~lastCall.force
    /\ lastCall.result = "Ok"
    /\ Failed("is_symlink")
    /\ Did("remove_symlink")
    /\ Did("git_worktree_remove")
    /\ ~RegistryHas(registry, lastCall.name)

\* C19: remove_symlink(path) when nothing is at path returns Ok and changes
\* nothing; and after a remove_symlink that returned Ok, a second one on the
\* same path returns Ok and leaves the filesystem as the first left it.
C19_RemoveLinkIdempotent ==
    [][ lastCall'.op = "remove_symlink"
        => /\ ~EntryAt(fs, lastCall'.name)
                => (lastCall'.result = "Ok" /\ fs' = fs)
           /\ lastCall'.result = "Ok"
                => \A fault \in BOOLEAN :
                      TryRemoveSymlink(fs', lastCall'.name, fault)
                          = [fs |-> fs', ok |-> TRUE] ]_vars

\* remove_symlink returned Ok on a path where a link had been made and
\* removed before: nothing is there and nothing was removed this time
C19_Witness ==
    /\ lastCall.op = "remove_symlink"
    /\ lastCall.result = "Ok"
    /\ Failed("is_symlink")
    /\ ~EntryAt(fs, lastCall.name)
    /\ lastCall.name \in Targets

\* C20: create_symlink(source, target) with a source that does not exist
\* returns an error and leaves no entry at target; nothing else changes
\* (a stale entry at target may have been removed).
C20_MissingSourceIsError ==
    [][ (lastCall'.op = "create_symlink" /\ ~EntryAt(fs, lastCall'.stage))
        => /\ lastCall'.result # "Ok"
           /\ ~EntryAt(fs', lastCall'.name)
           /\ \A p \in Paths \ {lastCall'.name} : fs'[p] = fs[p] ]_vars

\* C21: create_symlink(source, target) with an existing source, when the
\* symlink call is not made to fail from outside, succeeds whatever is at
\* target (a file, a link, a broken link or a directory) and leaves target
\* a link to source that resolves; a second application changes nothing.
C21_CreateLinkReplacesAnyEntry ==
    [][ (/\ lastCall'.op = "create_symlink"
         /\ PathExists(fs, lastCall'.stage)
         /\ ~(/\ lastCall'.result # "Ok"
              /\ CreateSymlink(fs, lastCall'.stage, lastCall'.name, FALSE).ok))
        => /\ lastCall'.result = "Ok"
           /\ fs'[lastCall'.name] = Symlink(lastCall'.stage)
           /\ PathExists(fs', lastCall'.name)
           /\ CreateSymlink(fs', lastCall'.stage, lastCall'.name, FALSE)
                 = [fs |-> fs', ok |-> TRUE] ]_vars

\* C22: validate_symlink(path) returns true only if there is an entry at
\* path and it resolves, and for a broken link (a symlink that does not
\* resolve) it returns something else than for an absent path.
C22_ValidateTellsBrokenFromAbsent ==
    lastCall.op = "validate_symlink"
        => /\ lastCall.result = "TRUE"
                => (EntryAt(fs, lastCall.name) /\ PathExists(fs, lastCall.name))
           /\ (IsSymlink(fs, lastCall.name) /\ ~PathExists(fs, lastCall.name))
                => lastCall.result
                     # ToString(ValidateSymlink([fs EXCEPT ![lastCall.name] = Absent],
                                                lastCall.name))

\* C23: parse_worktree_list returns exactly one WorktreeInfo per path line
\* of the listing, in listing order, each with the commit and the branch of
\* the lines that follow its path line up to the next path line; a record
\* without a branch line gets the empty branch and the parse returns Ok.
C23_OneWorktreeInfoPerPathLine ==
    lastCall.op = "parse_worktree_list" =>
        LET lines == input.arg
            starts == SelectSeq([k \in 1..Len(lines) |-> k],
                                LAMBDA k : StartsWith(lines[k], "worktree"))
            ValueIn(ls, from, to, key) ==
                LET ks == { k \in (from + 1)..(to - 1) : StartsWith(ls[k], key) }
                IN  IF ks = {} THEN ""
                    ELSE ls[CHOOSE k \in ks : \A m \in ks : m <= k][2]
            next(i) == IF i < Len(starts) THEN starts[i + 1] ELSE Len(lines) + 1
        IN  /\ lastCall.result = "Ok"
            /\ Len(output) = Len(starts)
            /\ \A i \in 1..Len(starts) :
                  /\ output[i].path = lines[starts[i]][2]
                  /\ output[i].commit = ValueIn(lines, starts[i], next(i), "HEAD")
                  /\ output[i].branch = ValueIn(lines, starts[i], next(i), "branch")

\* two records, the second one without a branch line
C23_Witness ==
    /\ lastCall.op = "parse_worktree_list"
    /\ Len(output) = 2
    /\ output[1].branch # ""
    /\ output[2].branch = ""
    /\ output[2].commit # ""
    /\ \E k \in 1..Len(input.arg) : input.arg[k] = <<"detached">>

\* C24: expanding a hook text made of literal text and the placeholders
\* {agent_name}, {branch} and {worktree_path} replaces each placeholder by
\* exactly the context value and leaves the rest as it is; a substituted
\* value is not expanded again.
C24_PlaceholdersExpandLiterally ==
    (/\ lastCall.op \in {"expand_command", "execute_hook"}
     /\ \A k \in 1..Len(input.arg.command) :
           input.arg.command[k] \in {"echo", "{agent_name}", "{branch}", "{worktree_path}"})
        => LET command == input.arg.command
               context == input.arg.context
           IN  /\ Len(output) = Len(command)
               /\ \A k \in 1..Len(command) :
                     output[k] = IF command[k] = "{agent_name}" THEN context.agent_name[1]
                                 ELSE IF command[k] = "{branch}" THEN context.branch[1]
                                 ELSE IF command[k] = "{worktree_path}"
                                 THEN context.worktree_path[1]
                                 ELSE command[k]

\* C25: two processes each load the registry document, create an
\* environment of their own name and write the document back.  When both
\* calls returned Ok, the document holds the name of the later one, and the
\* name of the earlier one exactly when the later process loaded the
\* document after the earlier call had returned: loaded before, the earlier
\* name is lost.  FileLock::acquire never refuses, another holder or not.
C25_ConcurrentCreateLosesUpdate ==
    /\ \A p \in Procs : procs[p].pc # "refused"
    /\ \A p \in Procs, q \in Procs :
          ( /\ procs[p].result = "Ok" /\ procs[q].result = "Ok"
            /\ procs[p].returned_at < procs[q].returned_at )
          => /\ RegistryHas(persisted, procs[q].name)
             /\ RegistryHas(persisted, procs[p].name)
                   <=> procs[q].loaded_at >= procs[p].returned_at

\* both calls returned Ok, both processes hold the lock, one name is lost
C25_Witness ==
    /\ \A p \in Procs : procs[p].result = "Ok" /\ procs[p].lock
    /\ \E p \in Procs : ~RegistryHas(persisted, procs[p].name)

\* C26: every hook execution ends within its configured timeout (a hook
\* process that never exits is terminated and counted as failed), so a call
\* of create_environment or remove_environment that has started always
\* returns.
C26_HookTimeoutEndsEveryCall == Pending ~> (lastCall.result # None)

\* C27: when link provisioning fails in create_environment, the
\* compensations run in reverse order of the committed steps: every link
\* created earlier in the pass is removed first, then the worktree directory
\* tree is removed, and only then the error is returned.
C27_LinksRemovedBeforeWorktree ==
    (lastCall.op = "create" /\ lastCall.stage = "links") =>
        /\ \E i \in 1..Len(callLog) : callLog[i].ev = "remove_dir_all"
        /\ \A k \in 1..Len(callLog) :
              (callLog[k].ev = "create_symlink" /\ callLog[k].ok) =>
                 \E j \in (k + 1)..Len(callLog) :
                    /\ callLog[j].ev = "remove_symlink"
                    /\ callLog[j].arg = callLog[k].arg
        /\ \A i \in 1..Len(callLog), j \in 1..Len(callLog) :
              (callLog[i].ev = "remove_dir_all" /\ callLog[j].ev = "remove_symlink")
                 => j < i

\* C28: in every run of create_environment the steps occur in this order:
\* uniqueness check, branch and path resolution, pre-create hooks, worktree
\* creation, link provisioning, Registry insert and persist, post-create
\* hooks; and a later step never starts unless every earlier one succeeded.
\* Read from the log of the call: a refused name starts nothing; up to the
\* first failed step the steps are in that order; after a failed step (a
\* hook failure that is not tolerated, or a failed call) only compensations
\* follow; a call that returns Ok has gone through every step.
C28_CreateStepsInOrder ==
    LET Rank(e) == CASE e = "git_branch" -> 1
                     [] e = "pre_create" -> 2
                     [] e \in {"git_worktree_add", "git_worktree_list"} -> 3
                     [] e \in {"create_dir_all", "create_symlink"} -> 4
                     [] e = "save_registry" -> 5
                     [] e = "post_create" -> 6
                     [] OTHER -> 0
        HardFail(k) ==
            /\ ~callLog[k].ok
            /\ callLog[k].ev \in {"pre_create", "post_create"}
                  => ~config.hooks[callLog[k].ev][callLog[k].i].continue_on_error
        Count(e) == Cardinality({ k \in 1..Len(callLog) : callLog[k].ev = e })
    IN  lastCall.op = "create" =>
        /\ lastCall.result = "AlreadyExists" => callLog = <<>>
        /\ \A j \in 1..Len(callLog), k \in 1..Len(callLog) :
              (j < k /\ \A m \in 1..(k - 1) : ~HardFail(m))
                 => Rank(callLog[j].ev) <= Rank(callLog[k].ev) /\ Rank(callLog[j].ev) > 0
        /\ \A k \in 1..Len(callLog), j \in 1..Len(callLog) :
              (HardFail(k) /\ j > k)
                 => \/ callLog[j].ev \in {"remove_dir_all", "remove_symlink"}
                    \/ callLog[j].ev = "save_registry" /\ callLog[k].ev = "post_create"
        /\ (\E k \in 1..Len(callLog) : HardFail(k)) => lastCall.result # "Ok"
        /\ lastCall.result = "Ok" =>
              /\ Count("git_branch") = 1
              /\ Count("pre_create") = Len(config.hooks.pre_create)
              /\ Count("git_worktree_add") = 1
              /\ Count("create_symlink") = Len(config.files)
              /\ Count("save_registry") = 1
              /\ Count("post_create") = Len(config.hooks.post_create)

\* a call that went through every step, with a tolerated hook failure on
\* the way, and returned Ok
C28_Witness ==
    /\ lastCall.op = "create" /\ lastCall.result = "Ok"
    /\ config.files # <<>>
    /\ \E k \in 1..Len(callLog) : callLog[k].ev = "pre_create" /\ ~callLog[k].ok
    /\ \E k \in 1..Len(callLog) : callLog[k].ev = "post_create"

\* C29: serializing the Registry to its document and loading that document
\* again yields a Registry with the same set of environment names, the same
\* branch for each name and the same active pointer, for every Registry
\* (the empty one and one with no active environment included).
C29_RegistryRoundTrip ==
    lastCall.op = "save_registry" =>
        LET reg == input.arg.registry
        IN  /\ DOMAIN output.environments = DOMAIN reg.environments
            /\ \A n \in DOMAIN reg.environments :
                  output.environments[n].branch = reg.environments[n].branch
            /\ output.active = reg.active

\* a Registry of two entries, one of them named null, with an active pointer
C29_Witness ==
    /\ lastCall.op = "save_registry"
    /\ DOMAIN input.arg.registry.environments = {"a", "null"}
    /\ input.arg.registry.active = "null"
    /\ output.active = "null"

C31_GitOnlySkipsSideEffects ==
    [][ (ncalls' = ncalls + 1 /\ lastCall'.stage = "git_only") =>
        /\ \A k \in 1..Len(callLog') :
              callLog'[k].ev \in {"git_branch", "git_worktree_add",
                                  "git_worktree_list", "git_worktree_remove"}
        /\ \E k \in 1..Len(callLog') :
              callLog'[k].ev = IF lastCall'.op = "add" THEN "git_worktree_add"
                               ELSE "git_worktree_remove"
        /\ lastCall'.op = "add" =>
              \A p \in DOMAIN fs : p # lastCall'.name => fs'[p] = fs[p]
        /\ lastCall'.result # "Ok" => fs' = fs /\ git' = git
        /\ (lastCall'.op = "remove" /\ lastCall'.result = "Ok") =>
              \A p \in Paths : p # lastCall'.name => fs'[p] = fs[p] ]_vars

\* a git_only remove that removed a worktree, under a configuration with
\* mappings and hooks, the main repository having a .env file
C31_Witness ==
    /\ lastCall.op = "remove" /\ lastCall.stage = "git_only" /\ lastCall.result = "Ok"
    /\ config.files # <<>>
    /\ config.hooks.pre_remove # <<>>
    /\ fs[".env"].kind = "file"
    /\ git.branches # {MainBranch}

\* C32: in the add command, a file mapping whose source does not exist,
\* whose parent directory cannot be created or whose link creation fails is
\* skipped with a warning: every other mapping is still processed, the
\* worktree is kept and the command succeeds.  Once git has added the
\* worktree the command returns Ok and the worktree is there; only a
\* mapping whose source is missing is skipped unprocessed; every other
\* mapping reaches create_dir_all or create_symlink, whatever happened to
\* the mappings before it; a link reported made is on disk.
C32_AddSkipsFailedMappings ==
    ( /\ lastCall.op = "add"
      /\ lastCall.stage # "git_only"
      /\ \E k \in 1..Len(callLog) : callLog[k].ev = "git_worktree_list" /\ callLog[k].ok )
    => LET path == lastCall.name
           About(k, i) ==
               \/ callLog[k].ev = "source_exists" /\ callLog[k].arg = config.files[i]
               \/ /\ callLog[k].ev = "create_dir_all" /\ ~callLog[k].ok
                  /\ callLog[k].arg = Parent(Join(path, config.files[i]))
               \/ /\ callLog[k].ev = "create_symlink"
                  /\ callLog[k].arg = Join(path, config.files[i])
       IN  /\ lastCall.result = "Ok"
           /\ Registered(git, path) /\ fs[path].kind = "dir"
           /\ \A i \in 1..Len(config.files) :
                 /\ Cardinality({ k \in 1..Len(callLog) : About(k, i) }) = 1
                 /\ \A k \in 1..Len(callLog) :
                       About(k, i) =>
                          /\ callLog[k].ev = "source_exists"
                                <=> fs[config.files[i]].kind = "absent"
                          /\ (callLog[k].ev = "create_symlink" /\ callLog[k].ok)
                                => fs[Join(path, config.files[i])] = Symlink(config.files[i])
                          /\ ~callLog[k].ok
                                => fs[Join(path, config.files[i])].kind = "absent"

\* the first mapping was skipped or failed, the second one was linked
C32_Witness ==
    /\ lastCall.op = "add" /\ lastCall.result = "Ok"
    /\ \E j \in 1..Len(callLog), k \in 1..Len(callLog) :
          /\ j < k
          /\ callLog[j].ev \in {"source_exists", "create_dir_all", "create_symlink"}
          /\ ~callLog[j].ok
          /\ callLog[k].ev = "create_symlink" /\ callLog[k].ok

\* C33: branch_exists(name) returns true exactly when a branch named name
\* is among the repository's branches, for every line form of the branch
\* listing: a plain line, the current branch ('*'), a branch checked out
\* in another worktree ('+').
C33_BranchExistsIffBranch ==
    \A k \in 1..Len(callLog) :
        callLog[k].ev = "branch_exists"
            => (callLog[k].ok <=> callLog[k].arg \in git.branches)

\* C34: in the parsed worktree listing a record's locked flag is true
\* exactly when the record contains a lock line and its prunable flag is
\* true exactly when the record contains a prunable line, a line that
\* carries a reason text after the keyword included; flags never leak from
\* one record to the next.
C34_LockAndPrunableFlags ==
    lastCall.op = "parse_worktree_list" =>
        LET lines == input.arg
            starts == SelectSeq([k \in 1..Len(lines) |-> k],
                                LAMBDA k : StartsWith(lines[k], "worktree"))
            next(i) == IF i < Len(starts) THEN starts[i + 1] ELSE Len(lines) + 1
            Has(i, key) == \E k \in (starts[i] + 1)..(next(i) - 1) :
                              lines[k] # <<>> /\ lines[k][1] = key
        IN  /\ Len(output) = Len(starts)
            /\ \A i \in 1..Len(starts) :
                  /\ output[i].locked <=> Has(i, "locked")
                  /\ output[i].prunable <=> Has(i, "prunable")

\* C35: list_environments returns every worktree of the listing except the
\* main repository's own worktree (the first record git prints, at the
\* repository's path), which is never in the result.
C35_ListExcludesMainWorktree ==
    lastCall.op = "list_environments" =>
        LET lines == input.arg
            listed == { lines[k][2] : k \in { j \in 1..Len(lines) :
                                                StartsWith(lines[j], "worktree") } }
            returned == { output[i].path : i \in 1..Len(output) }
        IN  /\ "/repo" \notin returned
            /\ listed \ {"/repo"} \subseteq returned

\* C36: in the add command a failing post_create hook never makes the
\* command fail and never removes the worktree or the links already created,
\* whatever the hook's continue_on_error; the later post_create hooks still
\* run.
C36_AddPostCreateFailureOnlyWarns ==
    (/\ lastCall.op = "add"
     /\ \E k \in 1..Len(callLog) : callLog[k].ev = "post_create" /\ ~callLog[k].ok)
        => /\ lastCall.result = "Ok"
           /\ \A i \in 1..Len(config.hooks.post_create) :
                 \E k \in 1..Len(callLog) :
                    callLog[k].ev = "post_create" /\ callLog[k].i = i
           /\ Registered(git, lastCall.name)
           /\ fs[lastCall.name].kind = "dir"
           /\ \A k \in 1..Len(callLog) :
                 (callLog[k].ev = "create_symlink" /\ callLog[k].ok)
                     => IsSymlink(fs, callLog[k].arg)

\* an add whose first post_create hook, one that does not continue on
\* error, failed: the second hook ran, a link was made and the command
\* succeeded
C36_Witness ==
    /\ lastCall.op = "add"
    /\ lastCall.result = "Ok"
    /\ Len(config.hooks.post_create) = 2
    /\ ~config.hooks.post_create[1].continue_on_error
    /\ \E k \in 1..Len(callLog) :
          callLog[k].ev = "post_create" /\ callLog[k].i = 1 /\ ~callLog[k].ok
    /\ \E k \in 1..Len(callLog) : callLog[k].ev = "post_create" /\ callLog[k].i = 2
    /\ \E k \in 1..Len(callLog) : callLog[k].ev = "create_symlink" /\ callLog[k].ok

\* C37: whenever create_environment or remove_environment returns, with
\* success or with an error, the persisted registry document has the same
\* environment names, the same status for each and the same active pointer
\* as the in-memory registry.
C37_PersistedEqualsMemory ==
    lastCall.op \in {"create", "remove"} =>
        /\ DOMAIN persisted.environments = DOMAIN registry.environments
        /\ \A n \in DOMAIN registry.environments :
              persisted.environments[n].status = registry.environments[n].status
        /\ persisted.active = registry.active

\* C38: when create_environment returns an error, the in-memory registry
\* equals its value before the call: the same entries with the same
\* statuses and the same active pointer; an environment that was active
\* before the call is still Active and still the one active names.
C38_FailedCreateKeepsRegistry ==
    [][ (ncalls' = ncalls + 1 /\ lastCall'.op = "create" /\ lastCall'.result # "Ok")
            => registry' = registry ]_vars

\* C39 (as stated): whenever remove_environment(name, force) returns
\* success, for either value of force, the worktree of that environment no
\* longer exists, none of its recorded links remains, and the registry has
\* no entry for name.
C39_RemovedLeavesNothing ==
    [][ (ncalls' = ncalls + 1 /\ lastCall'.op = "remove" /\ lastCall'.result = "Ok")
            => LET env == registry.environments[lastCall'.name]
               IN  /\ ~RegistryHas(registry', env.name)
                   /\ ~Registered(git', env.worktree_path)
                   /\ ~PathExists(fs', env.worktree_path)
                   /\ \A i \in 1..Len(env.symlinks) :
                         ~IsSymlink(fs', env.symlinks[i].target) ]_vars

\* C39 (amended): whenever remove_environment(name, force) returns success
\* the registry has no entry for name; the worktree of that environment
\* still exists, or a recorded link remains, only if force was set and the
\* removal of that worktree or link was tried in this call and failed.
C39_RemovedLeavesOnlyWhatFailed ==
    [][ (ncalls' = ncalls + 1 /\ lastCall'.op = "remove" /\ lastCall'.result = "Ok")
            => LET env == registry.environments[lastCall'.name]
                   FailedOn(e, a) ==
                       /\ lastCall'.force
                       /\ \E k \in 1..Len(callLog') :
                             /\ callLog'[k].ev = e
                             /\ callLog'[k].arg = a
                             /\ ~callLog'[k].ok
               IN  /\ ~RegistryHas(registry', env.name)
                   /\ (Registered(git', env.worktree_path)
                          \/ PathExists(fs', env.worktree_path))
                        => FailedOn("git_worktree_remove", env.worktree_path)
                   /\ \A i \in 1..Len(env.symlinks) :
                         IsSymlink(fs', env.symlinks[i].target)
                            => FailedOn("remove_symlink", env.symlinks[i].target) ]_vars

\* a forced removal returned success although git refused to remove the
\* worktree: the worktree is still registered, the registry entry is gone
C39_Witness ==
    /\ lastCall.op = "remove"
    /\ lastCall.result = "Ok"
    /\ lastCall.force
    /\ ~RegistryHas(registry, lastCall.name)
    /\ Registered(git, WorktreePath(lastCall.name))
    /\ \E k \in 1..Len(callLog) : callLog[k].ev = "git_worktree_remove" /\ ~callLog[k].ok

\* C40: starting from an empty registry, after any sequence of
\* create_environment and remove_environment calls, each succeeding or
\* failing at any step, at most one entry has status Active, active is
\* absent or names an existing entry, and when active is present the entry
\* it names has status Active.
C40_RegistryInvariants ==
    /\ ActiveCount(registry) <= 1
    /\ registry.active # None =>
          /\ RegistryHas(registry, registry.active)
          /\ registry.environments[registry.active].status = "Active"

\* two environments after a second successful create: the first one was
\* demoted, the second is the active one
C40_Witness ==
    /\ lastCall.op = "create"
    /\ lastCall.result = "Ok"
    /\ Cardinality(DOMAIN registry.environments) = 2
    /\ registry.active = lastCall.name
    /\ ActiveCount(registry) = 1

====
